---------------------------- MODULE Spec2Model ----------------------------
(***************************************************************************)
(* Reputation bot: the reputation-signal extraction engine                 *)
(* (bot/services/reputation_detector.py), the fetcher's entry builder      *)
(* (bot/services/reputation_fetcher.py), the storage of reputation entries *)
(* (bot/database.py) and the ingestion handler                             *)
(* (bot/handlers/reputation.py).                                           *)
(*                                                                         *)
(* A text is a sequence of characters.  An ASCII character is the          *)
(* one-character string itself; a Cyrillic character is named by its       *)
(* Python escape without the backslash ("u0440" is Cyrillic er).            *)
(***************************************************************************)
EXTENDS Integers, Sequences, FiniteSets, TLC

VARIABLES
    \* build_entries_from_message / extract_reputation on one message
    words,              \* the words the text was made of (input bookkeeping)
    sep,                \* the separator the words were joined with
    message,            \* the incoming message
    pc,                 \* position in build_entries_from_message
    sentiments,         \* extract_reputation: the OrderedDict
    pending_mentions,   \* extract_reputation: the pending queue
    current_sign,       \* extract_reputation: the current sign
    tokens,             \* the tokens TOKEN_PATTERN.finditer has yet to yield
    parsed,             \* the list extract_reputation returned
    entries,            \* the list build_entries_from_message returned
    \* _resolve_sentiment on one sign run
    sign_run,           \* the argument
    resolved,           \* the value returned, None before the call
    \* the database connection
    rows,               \* table reputation_entries, in the order of the row ids
    in_transaction,     \* the connection has an open transaction
    groups,             \* table groups: chat_id -> title, username, type, is_active,
                        \* last_processed_message_id
    committed,          \* the two tables as of the last commit
    \* the last call of store_reputation_entries, in a sequence of calls
    stored_batch,       \* its argument
    stored_count,       \* the count it returned
    rows_before,        \* the table before it
    repeated,           \* its argument was that of the call before it
    \* ingestion of one chat message by concurrent tasks
    paused,             \* settings: the bot is paused
    chat_message,       \* the chat message
    tasks,              \* per task: kind, position, entries built, loop state
    \* normalize_target applied again and again to one target
    raw_target,         \* the target
    normalized,         \* the values returned so far, the last one last
    \* one call of parse_rep_arguments
    arg_words,          \* the words the text is made of
    arg_text,           \* the text
    arguments,          \* what the call returned or raised, once it has ended
    \* the manual-adjustment ledger and the last call of fetch_summary
    adjustments,        \* table manual_adjustments, in the order of the row ids
    fetched,            \* the last call of fetch_summary since the tables changed
    users,              \* table users: user_id -> request_count, blocked
    member_status,      \* the new status of the bot in the last my_chat_member update
    \* one PyrogramAccountPool and the calls made on it
    accounts_api,       \* the db of the pool has the pyrogram account methods
    account_rows,       \* the session names of the active accounts, in list order
    account_version,    \* the number of changes of that list so far
    _clients,           \* self._clients: the session names that have a client
    started,            \* per session, the clients started and not stopped
    _order,             \* self._order
    _index,             \* self._index
    _api_id,            \* self._api_id
    _api_hash,          \* self._api_hash
    _lock,              \* self._lock: the call that holds it, 0 when free
    calls,              \* per call: kind, position, arguments, locals
    acquired            \* how the calls of acquire ended, the last one last

detectorVars ==
    << words, sep, message, pc, sentiments, pending_mentions, current_sign,
       tokens, parsed, entries >>

signVars == << sign_run, resolved >>

connVars == << rows, in_transaction, groups, committed >>

callVars == << stored_batch, stored_count, rows_before, repeated >>

ingestVars == << paused, chat_message, tasks >>

normVars == << raw_target, normalized, arg_words, arg_text, arguments >>

queryVars == << adjustments, fetched, users, member_status >>

poolVars ==
    << accounts_api, account_rows, account_version, _clients, started, _order,
       _index, _api_id, _api_hash, _lock, calls, acquired >>

vars ==
    << detectorVars, signVars, connVars, callVars, ingestVars, normVars, queryVars,
       poolVars >>

\* Python's None where a string is expected
None == "None"

\* an optional value: absent, or present with value v
Null == << >>
Some(v) == << v >>

(***************************************************************************)
(* Characters: str.lower(), \w, \s and [+-] of Python's re (str patterns). *)
(***************************************************************************)
UpperLetters ==
    << "A", "B", "C", "D", "E", "F", "G", "H", "I", "J", "K", "L", "M",
       "N", "O", "P", "Q", "R", "S", "T", "U", "V", "W", "X", "Y", "Z",
       "u0420", "u0415", "u041f", "u0423", "u0422", "u0410", "u0426",
       "u0418", "u042e", "u042f" >>

LowerLetters ==
    << "a", "b", "c", "d", "e", "f", "g", "h", "i", "j", "k", "l", "m",
       "n", "o", "p", "q", "r", "s", "t", "u", "v", "w", "x", "y", "z",
       "u0440", "u0435", "u043f", "u0443", "u0442", "u0430", "u0446",
       "u0438", "u044e", "u044f" >>

Digits == << "0", "1", "2", "3", "4", "5", "6", "7", "8", "9" >>

Range(f) == { f[i] : i \in DOMAIN f }

LowerChar(c) ==
    IF c \in Range(UpperLetters)
    THEN LowerLetters[CHOOSE i \in DOMAIN UpperLetters : UpperLetters[i] = c]
    ELSE c

Lower(s) == [i \in DOMAIN s |-> LowerChar(s[i])]

IsWordChar(c) ==
    c \in Range(UpperLetters) \cup Range(LowerLetters) \cup Range(Digits) \cup {"_"}

IsSpaceChar(c) == c \in {" ", "\t", "\n"}

IsSignChar(c) == c \in {"+", "-"}

Slice(s, from, to) == SubSeq(s, from, to - 1)


(***************************************************************************)
(* Regular-expression pieces.  A position is an index 1..Len(s)+1; a piece *)
(* maps the position where it starts to the position after its match, and  *)
(* 0 means that it does not match there.                                   *)
(***************************************************************************)
MaxTargetLen == 64
MinTargetLen == 3

\* a local name: Op applied to the value v
With(v, Op(_)) == Op(v)

RECURSIVE RunEnd(_, _, _)
\* greedy [+-]* , \s* or \w* : the position after the longest run from i
RunEnd(s, i, kind) ==
    IF i > Len(s) THEN i
    ELSE IF \/ kind = "sign" /\ IsSignChar(s[i])
            \/ kind = "space" /\ IsSpaceChar(s[i])
            \/ kind = "word" /\ IsWordChar(s[i])
         THEN RunEnd(s, i + 1, kind)
         ELSE i

\* LiteralAt comparing one character too few
LiteralAt_SkipLast(s, i, lit) ==
    /\ i + Len(lit) - 1 <= Len(s)
    /\ \A k \in 1..(Len(lit) - 1) : LowerChar(s[i + k - 1]) = lit[k]

\* a literal under re.IGNORECASE (and keyword in lowered, on the lowered text)
LiteralAt(s, i, lit) ==
    /\ i + Len(lit) - 1 <= Len(s)
    /\ \A k \in 1..Len(lit) : LowerChar(s[i + k - 1]) = lit[k]

\* \b at position i: exactly one of s[i-1], s[i] is a word character
WordBoundary(s, i) ==
    (i > 1 /\ i - 1 <= Len(s) /\ IsWordChar(s[i - 1]))
        # (i >= 1 /\ i <= Len(s) /\ IsWordChar(s[i]))

RECURSIVE KeywordEnd(_, _, _, _)
\* (?:alt1|alt2|...)\b : the alternatives are tried in order from the k-th
KeywordEnd(s, i, alts, k) ==
    IF k > Len(alts) THEN 0
    ELSE IF LiteralAt(s, i, alts[k]) /\ WordBoundary(s, i + Len(alts[k]))
         THEN i + Len(alts[k])
         ELSE KeywordEnd(s, i, alts, k + 1)

\* (?P<sign>[+-]+)\s*(?:alts)\b
SignKeywordEnd(s, i, alts) ==
    With(RunEnd(s, i, "sign"), LAMBDA e1 :
        IF e1 = i THEN 0
        ELSE KeywordEnd(s, RunEnd(s, e1, "space"), alts, 1))

\* @?[\w\d_]{3,64}, the word run starting at w: greedy, at most 64 characters
\* (bounded = FALSE), or to be followed by \s*[+-], so that the run must end
\* within 64 characters (bounded = TRUE)
WordsEnd(s, w, bounded) ==
    With(RunEnd(s, w, "word") - w, LAMBDA n :
        IF n < MinTargetLen THEN 0
        ELSE IF n <= MaxTargetLen THEN w + n
        ELSE IF bounded THEN 0
        ELSE w + MaxTargetLen)

TargetEnd(s, i, bounded) ==
    WordsEnd(s, IF i <= Len(s) /\ s[i] = "@" THEN i + 1 ELSE i, bounded)

KW_rep == << "r", "e", "p" >>
KW_rep_cyr == << "u0440", "u0435", "u043f" >>
KW_repu == << "u0440", "u0435", "u043f", "u0443" >>
KW_reputaciyu ==
    << "u0440", "u0435", "u043f", "u0443", "u0442", "u0430", "u0446", "u0438", "u044e" >>
KW_reputaciya ==
    << "u0440", "u0435", "u043f", "u0443", "u0442", "u0430", "u0446", "u0438", "u044f" >>

KEYWORDS == << KW_rep, KW_rep_cyr, KW_reputaciya, KW_repu >>

ShortAlts == << KW_rep, KW_rep_cyr >>
LongAlts == << KW_repu, KW_reputaciyu, KW_reputaciya >>
AllAlts == << KW_rep, KW_rep_cyr, KW_repu, KW_reputaciyu, KW_reputaciya >>

NoMatch == [end |-> 0]

\* RE_PATTERNS[0] and RE_PATTERNS[2]: sign, keyword, target
MatchSignKeywordTarget(s, i, alts) ==
    With(SignKeywordEnd(s, i, alts), LAMBDA e2 :
        IF e2 = 0 THEN NoMatch
        ELSE With(RunEnd(s, e2, "space"), LAMBDA e3 :
                With(TargetEnd(s, e3, FALSE), LAMBDA e4 :
                    IF e4 = 0 THEN NoMatch
                    ELSE [end |-> e4,
                          sign |-> Slice(s, i, RunEnd(s, i, "sign")),
                          target |-> Slice(s, e3, e4)])))

\* RE_PATTERNS[1]: target, sign, keyword
MatchTargetSignKeyword(s, i) ==
    With(TargetEnd(s, i, TRUE), LAMBDA e1 :
        IF e1 = 0 THEN NoMatch
        ELSE With(RunEnd(s, e1, "space"), LAMBDA e2 :
                With(SignKeywordEnd(s, e2, AllAlts), LAMBDA e4 :
                    IF e4 = 0 THEN NoMatch
                    ELSE [end |-> e4,
                          sign |-> Slice(s, e2, RunEnd(s, e2, "sign")),
                          target |-> Slice(s, i, e1)])))

RE_PATTERNS == << "sign_short_target", "target_sign_any", "sign_long_target" >>

\* SIGN_ONLY_PATTERN
MatchSignOnly(s, i) ==
    With(SignKeywordEnd(s, i, AllAlts), LAMBDA e :
        IF e = 0 THEN NoMatch
        ELSE [end |-> e, sign |-> Slice(s, i, RunEnd(s, i, "sign")), mention |-> Null])

\* TOKEN_PATTERN: a sign token, else a mention token
MatchToken(s, i) ==
    IF i <= Len(s) /\ s[i] = "@"
    THEN With(TargetEnd(s, i, FALSE), LAMBDA e :
            IF e = 0 THEN NoMatch
            ELSE [end |-> e, sign |-> Null, mention |-> Slice(s, i, e)])
    ELSE MatchSignOnly(s, i)

\* the match of pattern p that starts at position i
MatchAt(p, s, i) ==
    IF p = "token" THEN MatchToken(s, i)
    ELSE IF p = "sign_only" THEN MatchSignOnly(s, i)
    ELSE IF p = "sign_short_target" THEN MatchSignKeywordTarget(s, i, ShortAlts)
    ELSE IF p = "target_sign_any" THEN MatchTargetSignKeyword(s, i)
    ELSE MatchSignKeywordTarget(s, i, LongAlts)

RECURSIVE FindIter(_, _, _)
\* pattern.finditer(text): the non-overlapping matches, leftmost first
FindIter(p, s, i) ==
    IF i > Len(s) THEN << >>
    ELSE With(MatchAt(p, s, i), LAMBDA m :
            IF m.end = 0 THEN FindIter(p, s, i + 1)
            ELSE << m >> \o FindIter(p, s, m.end))

RECURSIVE Search(_, _, _)
\* pattern.search(text): the leftmost match from position i, or NoMatch
Search(p, s, i) ==
    IF i > Len(s) THEN NoMatch
    ELSE With(MatchAt(p, s, i), LAMBDA m :
            IF m.end = 0 THEN Search(p, s, i + 1) ELSE m)

(***************************************************************************)
(* normalize_target, _resolve_sentiment, register                          *)
(***************************************************************************)
RECURSIVE Strip(_)
Strip(s) ==
    IF s = << >> THEN s
    ELSE IF IsSpaceChar(s[1]) THEN Strip(Tail(s))
    ELSE IF IsSpaceChar(s[Len(s)]) THEN Strip(SubSeq(s, 1, Len(s) - 1))
    ELSE s

\* normalize_target dropping the first character, "@" or not
normalize_target_DropFirst(raw) ==
    With(Strip(raw), LAMBDA target : Lower(Tail(target)))

\* normalize_target without lower()
normalize_target_KeepCase(raw) ==
    With(Strip(raw), LAMBDA target :
        IF target # << >> /\ target[1] = "@" THEN Tail(target) ELSE target)

normalize_target(raw) ==
    With(Strip(raw), LAMBDA target :
        IF target # << >> /\ target[1] = "@"
        THEN Lower(Tail(target))
        ELSE Lower(target))

Count(s, c) == Cardinality({i \in DOMAIN s : s[i] = c})

\* _resolve_sentiment asking for more "+" than "-"
_resolve_sentiment_StrictMajority(sign) ==
    IF Count(sign, "+") > Count(sign, "-") THEN "positive" ELSE "negative"

_resolve_sentiment(sign) ==
    IF Count(sign, "+") >= Count(sign, "-") THEN "positive" ELSE "negative"

\* register keeping the sentiment a target already has
register_KeepFirst(dict, target, sentiment) ==
    IF \E i \in DOMAIN dict : dict[i].target = target
    THEN dict
    ELSE Append(dict, [target |-> target, sentiment |-> sentiment])

\* register moving a target whose sentiment changes to the end
register_MoveToEnd(dict, target, sentiment) ==
    IF \E i \in DOMAIN dict : dict[i] = [target |-> target, sentiment |-> sentiment]
    THEN dict
    ELSE Append(SelectSeq(dict, LAMBDA item : item.target # target),
                [target |-> target, sentiment |-> sentiment])

\* dict is the OrderedDict sentiments, as the sequence of its items
register(dict, target, sentiment) ==
    IF \E i \in DOMAIN dict : dict[i] = [target |-> target, sentiment |-> sentiment]
    THEN dict
    ELSE IF \E i \in DOMAIN dict : dict[i].target = target
    THEN [i \in DOMAIN dict |->
            IF dict[i].target = target
            THEN [target |-> target, sentiment |-> sentiment]
            ELSE dict[i]]
    ELSE Append(dict, [target |-> target, sentiment |-> sentiment])

(***************************************************************************)
(* extract_reputation                                                      *)
(***************************************************************************)
\* any(keyword in lowered for keyword in KEYWORDS)
HasKeyword(lowered) ==
    \E k \in DOMAIN KEYWORDS :
        \E i \in 1..Len(lowered) : LiteralAt(lowered, i, KEYWORDS[k])

RECURSIVE RegisterMatches(_, _)
\* the body of "for match in pattern.finditer(text)"
RegisterMatches(dict, ms) ==
    IF ms = << >> THEN dict
    ELSE IF ms[1].target = << >> THEN RegisterMatches(dict, Tail(ms))
    ELSE RegisterMatches(
            register(dict, normalize_target(ms[1].target),
                     _resolve_sentiment(ms[1].sign)),
            Tail(ms))

RECURSIVE PatternPass(_, _, _)
\* "for pattern in RE_PATTERNS", from the k-th pattern
PatternPass(dict, text, k) ==
    IF k > Len(RE_PATTERNS) THEN dict
    ELSE PatternPass(RegisterMatches(dict, FindIter(RE_PATTERNS[k], text, 1)),
                     text, k + 1)

\* RegisterPending registering the last pending mention only
RegisterPending_LastOnly(dict, pending, sentiment) ==
    IF pending = << >> THEN dict
    ELSE register(dict, pending[Len(pending)], sentiment)

RECURSIVE RegisterPending(_, _, _)
RegisterPending(dict, pending, sentiment) ==
    IF pending = << >> THEN dict
    ELSE RegisterPending(register(dict, pending[1], sentiment),
                         Tail(pending), sentiment)

\* TokenStep clearing the pending mentions without registering them
TokenStep_ForgetPending(st, token) ==
    IF token.sign # Null
    THEN [sentiments |-> st.sentiments, pending_mentions |-> << >>,
          current_sign |-> _resolve_sentiment(token.sign)]
    ELSE With(normalize_target(token.mention), LAMBDA mention :
            IF st.current_sign # None
            THEN [st EXCEPT !.sentiments = register(@, mention, st.current_sign)]
            ELSE IF mention \notin Range(st.pending_mentions)
                 THEN [st EXCEPT !.pending_mentions = Append(@, mention)]
                 ELSE st)

\* TokenStep queueing a mention also after a sign token
TokenStep_QueueAfterSign(st, token) ==
    IF token.sign # Null
    THEN With(_resolve_sentiment(token.sign), LAMBDA sentiment :
            [sentiments |-> RegisterPending(st.sentiments, st.pending_mentions, sentiment),
             pending_mentions |-> << >>,
             current_sign |-> sentiment])
    ELSE With(normalize_target(token.mention), LAMBDA mention :
            IF mention \notin Range(st.pending_mentions)
            THEN [st EXCEPT !.pending_mentions = Append(@, mention)]
            ELSE st)

\* one iteration of "for token in TOKEN_PATTERN.finditer(text)"
TokenStep(st, token) ==
    IF token.sign # Null
    THEN With(_resolve_sentiment(token.sign), LAMBDA sentiment :
            [sentiments |-> RegisterPending(st.sentiments, st.pending_mentions, sentiment),
             pending_mentions |-> << >>,
             current_sign |-> sentiment])
    ELSE With(normalize_target(token.mention), LAMBDA mention :
            IF st.current_sign # None
            THEN [st EXCEPT !.sentiments = register(@, mention, st.current_sign)]
            ELSE IF mention \notin Range(st.pending_mentions)
                 THEN [st EXCEPT !.pending_mentions = Append(@, mention)]
                 ELSE st)

RECURSIVE TokenPass(_, _)
TokenPass(st, toks) ==
    IF toks = << >> THEN st
    ELSE TokenPass(TokenStep(st, toks[1]), Tail(toks))

TokenStart(dict) ==
    [sentiments |-> dict, pending_mentions |-> << >>, current_sign |-> None]

extract_reputation(text) ==
    IF text = << >> THEN << >>
    ELSE IF ~HasKeyword(Lower(text)) THEN << >>
    ELSE TokenPass(TokenStart(PatternPass(<< >>, text, 1)),
                   FindIter("token", text, 1)).sentiments

(***************************************************************************)
(* build_entries_from_message                                              *)
(***************************************************************************)
RECURSIVE DigitsOf(_)
DigitsOf(n) ==
    IF n < 10 THEN << Digits[n + 1] >>
    ELSE Append(DigitsOf(n \div 10), Digits[(n % 10) + 1])

\* str(n)
Str(n) == IF n < 0 THEN << "-" >> \o DigitsOf(0 - n) ELSE DigitsOf(n)

\* a or b, for texts
Or(a, b) == IF a # << >> THEN a ELSE b

MessageText(m) == Or(Or(m.text, m.caption), << >>)

\* ReplyFallback with the username taken as it is
ReplyFallback_RawUsername(m, text) ==
    IF m.reply_to_message # Null
       /\ m.reply_to_message[1].from_user # Null
       /\ ~m.reply_to_message[1].from_user[1].is_bot
    THEN With(Search("sign_only", text, 1), LAMBDA match :
            IF match.end # 0
            THEN << [target |->
                        Or(m.reply_to_message[1].from_user[1].username,
                           Str(m.reply_to_message[1].from_user[1].id)),
                     sentiment |-> _resolve_sentiment(match.sign)] >>
            ELSE << >>)
    ELSE << >>

\* ReplyFallback without the is_bot test
ReplyFallback_AnyUser(m, text) ==
    IF m.reply_to_message # Null
       /\ m.reply_to_message[1].from_user # Null
    THEN With(Search("sign_only", text, 1), LAMBDA match :
            IF match.end # 0
            THEN << [target |->
                        normalize_target(
                            Or(m.reply_to_message[1].from_user[1].username,
                               Str(m.reply_to_message[1].from_user[1].id))),
                     sentiment |-> _resolve_sentiment(match.sign)] >>
            ELSE << >>)
    ELSE << >>

\* the reply-context fallback: what is appended to an empty parsed list
ReplyFallback(m, text) ==
    IF m.reply_to_message # Null
       /\ m.reply_to_message[1].from_user # Null
       /\ ~m.reply_to_message[1].from_user[1].is_bot
    THEN With(Search("sign_only", text, 1), LAMBDA match :
            IF match.end # 0
            THEN << [target |->
                        normalize_target(
                            Or(m.reply_to_message[1].from_user[1].username,
                               Str(m.reply_to_message[1].from_user[1].id))),
                     sentiment |-> _resolve_sentiment(match.sign)] >>
            ELSE << >>)
    ELSE << >>

\* bool(x) of an optional object or list
Bool(x) == x # Null

\* EntriesFor with the id 0 and an empty name for an absent author
EntriesFor_DefaultAuthor(m, found) ==
    [i \in DOMAIN found |->
        [target |-> found[i].target,
         chat_id |-> m.chat.id,
         message_id |-> m.message_id,
         sentiment |-> found[i].sentiment,
         has_photo |-> Bool(m.photo),
         has_media |-> Bool(m.video) \/ Bool(m.document) \/ Bool(m.animation),
         content |-> MessageText(m),
         author_id |-> IF m.from_user # Null THEN Some(m.from_user[1].id) ELSE Some(0),
         author_username |-> IF m.from_user # Null
                             THEN m.from_user[1].username ELSE Some(<< >>),
         message_date |-> m.date]]

\* EntriesFor with the mentions taken from the last to the first
EntriesFor_Reversed(m, found) ==
    [i \in DOMAIN found |->
        [target |-> found[Len(found) + 1 - i].target,
         chat_id |-> m.chat.id,
         message_id |-> m.message_id,
         sentiment |-> found[Len(found) + 1 - i].sentiment,
         has_photo |-> Bool(m.photo),
         has_media |-> Bool(m.video) \/ Bool(m.document) \/ Bool(m.animation),
         content |-> MessageText(m),
         author_id |-> IF m.from_user # Null THEN Some(m.from_user[1].id) ELSE Null,
         author_username |-> IF m.from_user # Null
                             THEN m.from_user[1].username ELSE Null,
         message_date |-> m.date]]

\* the entries built for the mentions found, lines 154-172
EntriesFor(m, found) ==
    [i \in DOMAIN found |->
        [target |-> found[i].target,
         chat_id |-> m.chat.id,
         message_id |-> m.message_id,
         sentiment |-> found[i].sentiment,
         has_photo |-> Bool(m.photo),
         has_media |-> Bool(m.video) \/ Bool(m.document) \/ Bool(m.animation),
         content |-> MessageText(m),
         author_id |-> IF m.from_user # Null THEN Some(m.from_user[1].id) ELSE Null,
         author_username |-> IF m.from_user # Null
                             THEN m.from_user[1].username ELSE Null,
         message_date |-> m.date]]

\* EntriesFromParsed with the reply fallback added to what was extracted
EntriesFromParsed_AlwaysFallback(m, extracted) ==
    EntriesFor(m, extracted \o ReplyFallback(m, MessageText(m)))

\* the part of build_entries_from_message after the call of extract_reputation
EntriesFromParsed(m, extracted) ==
    EntriesFor(m, IF extracted = << >>
                  THEN ReplyFallback(m, MessageText(m))
                  ELSE extracted)

build_entries_from_message(m) ==
    EntriesFromParsed(m, extract_reputation(MessageText(m)))

(***************************************************************************)
(* Inputs of the detector: texts made of the words of a small vocabulary   *)
(***************************************************************************)
MaxTokens == 3

W_plus_rep == << "+", "r", "e", "p" >>
W_minus_rep == << "-", "r", "e", "p" >>
\* "-+- " and the upper-case Cyrillic long keyword
W_mixed_repu == << "-", "+", "-", " ", "u0420", "u0415", "u041f", "u0423" >>
W_Abc == << "@", "A", "b", "c" >>
W_abc == << "@", "a", "b", "c" >>
W_def == << "@", "d", "e", "f" >>
W_xyz == << "x", "y", "z" >>
W_ab == << "@", "a", "b" >>
W_ghi == << "@", "g", "h", "i" >>

SignWords == {W_plus_rep, W_minus_rep, W_mixed_repu}
MentionWords == {W_Abc, W_abc, W_def}
Vocabulary == SignWords \cup MentionWords \cup {W_xyz, W_ab}

Separators == { << >>, << " " >> }

\* "+req" has a sign run and no keyword
W_plus_req == << "+", "r", "e", "q" >>

\* the keyword with no sign run
W_rep == << "r", "e", "p" >>

\* longer examples (the five-token one of the tests) and texts with a sign run
\* and a mention and no keyword
ExtraWordSeqs ==
    { << W_plus_rep, W_Abc, W_def, W_minus_rep, W_ghi >>,
      << W_minus_rep, W_Abc, W_plus_rep, W_abc >>,
      << W_plus_rep, W_Abc, W_minus_rep, W_def >>,
      << W_plus_req, W_Abc >>,
      << W_Abc, W_plus_req >>,
      << << "+" >>, W_Abc >>,
      << W_rep, W_Abc >>,
      << W_Abc, W_def, W_rep >>,
      << W_plus_rep, W_def, W_Abc, W_minus_rep >> }

WordSeqs == UNION { [1..n -> Vocabulary] : n \in 0..MaxTokens } \cup ExtraWordSeqs

RECURSIVE Join(_, _)
Join(ws, glue) ==
    IF ws = << >> THEN << >>
    ELSE IF Len(ws) = 1 THEN ws[1]
    ELSE ws[1] \o glue \o Join(Tail(ws), glue)

(***************************************************************************)
(* Messages                                                                *)
(***************************************************************************)
BotUser ==
    [id |-> 55, username |-> << "B", "o", "t", "U", "s", "e", "r" >>, is_bot |-> TRUE]
NamedUser ==
    [id |-> 99, is_bot |-> FALSE,
     username |-> << "T", "a", "r", "g", "e", "t", "U", "s", "e", "r" >>]
UnnamedUser == [id |-> 77, username |-> Null, is_bot |-> FALSE]
AuthorUser ==
    [id |-> 1, username |-> << "a", "u", "t", "h", "o", "r" >>, is_bot |-> FALSE]

Replies ==
    { Null,
      Some([from_user |-> Null]),
      Some([from_user |-> Some(BotUser)]),
      Some([from_user |-> Some(NamedUser)]),
      Some([from_user |-> Some(UnnamedUser)]) }

Authors == { Null, Some(AuthorUser) }

NoAttachment ==
    [photo |-> Null, video |-> Null, document |-> Null, animation |-> Null,
     audio |-> Null, voice |-> Null, video_note |-> Null]

Attachments ==
    { NoAttachment,
      [NoAttachment EXCEPT !.photo = Some("photo")],
      [NoAttachment EXCEPT !.video = Some("video")],
      [NoAttachment EXCEPT !.voice = Some("voice")] }

\* the chat of the messages: chat.id, chat.title, chat.username, chat.type
GroupChat ==
    [id |-> -100, title |-> "Apex", username |-> Null, type |-> "supergroup"]

\* the same chat after it was renamed and given a public name
RenamedChat ==
    [id |-> -100, title |-> "Apex 2", username |-> Some("apex"), type |-> "supergroup"]

\* a group message with the given text, before its other fields are drawn
TextMessage(text) ==
    [text |-> text, caption |-> Null, reply_to_message |-> Null,
     from_user |-> Some(AuthorUser), chat |-> GroupChat, message_id |-> 42,
     date |-> Some([timestamp |-> 1700000000]),
     photo |-> Null, video |-> Null, document |-> Null, animation |-> Null,
     audio |-> Null, voice |-> Null, video_note |-> Null]

WithContext(m, reply, author, att) ==
    [m EXCEPT !.reply_to_message = reply, !.from_user = author,
              !.photo = att.photo, !.video = att.video, !.document = att.document,
              !.animation = att.animation, !.audio = att.audio, !.voice = att.voice,
              !.video_note = att.video_note]

(***************************************************************************)
(* The detector on one message: build_entries_from_message, with the loop  *)
(* of extract_reputation over the tokens unrolled                          *)
(***************************************************************************)
DetectorIdle ==
    /\ words = << >>
    /\ sep = << >>
    /\ message = TextMessage(<< >>)
    /\ pc = "idle"
    /\ sentiments = << >>
    /\ pending_mentions = << >>
    /\ current_sign = None
    /\ tokens = << >>
    /\ parsed = << >>
    /\ entries = << >>

DetectorInit ==
    /\ words \in WordSeqs
    /\ sep \in Separators
    /\ Len(words) <= 1 => sep = << " " >>
    /\ message = TextMessage(Join(words, sep))
    /\ pc = "build"
    /\ sentiments = << >>
    /\ pending_mentions = << >>
    /\ current_sign = None
    /\ tokens = << >>
    /\ parsed = << >>
    /\ entries = << >>

\* extract_reputation, lines 72-78: the text is empty or has no keyword
ExtractNothing ==
    /\ pc = "build"
    /\ \E text \in {MessageText(message)} :
          text = << >> \/ ~HasKeyword(Lower(text))
    /\ parsed' = << >>
    /\ pc' = "extracted"
    /\ UNCHANGED << words, sep, message, sentiments, pending_mentions,
                    current_sign, tokens, entries >>
    /\ UNCHANGED << signVars, poolVars, connVars, callVars, ingestVars, normVars, queryVars >>

\* extract_reputation, lines 80-98: the three patterns
ExtractPatterns ==
    /\ pc = "build"
    /\ \E text \in {MessageText(message)} :
          /\ text # << >>
          /\ HasKeyword(Lower(text))
          /\ sentiments' = PatternPass(<< >>, text, 1)
          /\ tokens' = FindIter("token", text, 1)
    /\ pending_mentions' = << >>
    /\ current_sign' = None
    /\ pc' = "tokens"
    /\ UNCHANGED << words, sep, message, parsed, entries >>
    /\ UNCHANGED << signVars, poolVars, connVars, callVars, ingestVars, normVars, queryVars >>

\* extract_reputation, lines 100-114: one token
ExtractToken ==
    /\ pc = "tokens"
    /\ tokens # << >>
    /\ \E st \in {TokenStep([sentiments |-> sentiments,
                             pending_mentions |-> pending_mentions,
                             current_sign |-> current_sign], tokens[1])} :
          /\ sentiments' = st.sentiments
          /\ pending_mentions' = st.pending_mentions
          /\ current_sign' = st.current_sign
    /\ tokens' = Tail(tokens)
    /\ UNCHANGED << words, sep, message, pc, parsed, entries >>
    /\ UNCHANGED << signVars, poolVars, connVars, callVars, ingestVars, normVars, queryVars >>

\* ExtractReturn registering the mentions still pending as positive
ExtractReturn_FlushPending ==
    /\ pc = "tokens"
    /\ tokens = << >>
    /\ parsed' = RegisterPending(sentiments, pending_mentions, "positive")
    /\ pc' = "extracted"
    /\ UNCHANGED << words, sep, message, sentiments, pending_mentions,
                    current_sign, tokens, entries >>
    /\ UNCHANGED << signVars, poolVars, connVars, callVars, ingestVars, normVars, queryVars >>

\* extract_reputation, lines 116-123
ExtractReturn ==
    /\ pc = "tokens"
    /\ tokens = << >>
    /\ parsed' = sentiments
    /\ pc' = "extracted"
    /\ UNCHANGED << words, sep, message, sentiments, pending_mentions,
                    current_sign, tokens, entries >>
    /\ UNCHANGED << signVars, poolVars, connVars, callVars, ingestVars, normVars, queryVars >>

\* build_entries_from_message, lines 129-172; the fields of the message that
\* extract_reputation does not read are drawn here, where they are first read
BuildEntries ==
    /\ pc = "extracted"
    /\ \E reply \in Replies, author \in Authors, att \in Attachments :
          /\ message' = WithContext(message, reply, author, att)
          /\ entries' = EntriesFromParsed(message', parsed)
    /\ pc' = "built"
    /\ UNCHANGED << words, sep, sentiments, pending_mentions, current_sign,
                    tokens, parsed >>
    /\ UNCHANGED << signVars, poolVars, connVars, callVars, ingestVars, normVars, queryVars >>

DetectorNext ==
    \/ ExtractNothing
    \/ ExtractPatterns
    \/ ExtractToken
    \/ ExtractReturn
    \/ BuildEntries

(***************************************************************************)
(* _resolve_sentiment on one run of sign characters                        *)
(***************************************************************************)
MaxSignLen == 5

SignRuns == UNION { [1..n -> {"+", "-"}] : n \in 1..MaxSignLen }

SignIdle ==
    /\ sign_run = << >>
    /\ resolved = None

SignInit ==
    /\ sign_run \in SignRuns
    /\ resolved = None

ResolveSentiment ==
    /\ resolved = None
    /\ resolved' = _resolve_sentiment(sign_run)
    /\ UNCHANGED << sign_run, detectorVars, normVars, queryVars, connVars, callVars, ingestVars,
                    poolVars >>

(***************************************************************************)
(* The fetcher's entry builder (reputation_fetcher.py)                     *)
(***************************************************************************)
RECURSIVE LStripAt(_)
\* s.lstrip("@")
LStripAt(s) ==
    IF s # << >> /\ s[1] = "@" THEN LStripAt(Tail(s)) ELSE s

\* the reply fallback of _parse_reputation_from_message, lines 24-32
FetcherFallback(m, text) ==
    IF m.reply_to_message # Null
       /\ m.reply_to_message[1].from_user # Null
       /\ ~m.reply_to_message[1].from_user[1].is_bot
    THEN With(Search("sign_only", text, 1), LAMBDA match :
            IF match.end = 0 THEN << >>
            ELSE << [target |->
                        LStripAt(Lower(
                            Or(m.reply_to_message[1].from_user[1].username,
                               Str(m.reply_to_message[1].from_user[1].id)))),
                     sentiment |->
                        IF Count(match.sign, "+") >= Count(match.sign, "-")
                        THEN "positive" ELSE "negative"] >>)
    ELSE << >>

ParsedOrFallback(m, text, found) ==
    IF found # << >> THEN found ELSE FetcherFallback(m, text)

StrippedParse(m, text) == ParsedOrFallback(m, text, extract_reputation(text))

_parse_reputation_from_message(m) == StrippedParse(m, Strip(MessageText(m)))

_detect_media(m) ==
    [has_photo |-> m.photo # Null,
     has_media |-> \/ Bool(m.video) \/ Bool(m.document) \/ Bool(m.animation)
                   \/ Bool(m.audio) \/ Bool(m.voice) \/ Bool(m.video_note)]

\* the loop of _build_entries, lines 55-77
FetcherEntriesFor(m, chat_id, found) ==
    [i \in DOMAIN found |->
        [target |-> Lower(found[i].target),
         chat_id |-> chat_id,
         message_id |-> m.message_id,
         sentiment |-> found[i].sentiment,
         has_photo |-> _detect_media(m).has_photo,
         has_media |-> _detect_media(m).has_media,
         content |-> MessageText(m),
         author_id |-> IF m.from_user # Null THEN Some(m.from_user[1].id) ELSE Null,
         author_username |-> IF m.from_user # Null
                             THEN m.from_user[1].username ELSE Null,
         message_date |-> m.date]]

_build_entries(m, chat_id) ==
    FetcherEntriesFor(m, chat_id, _parse_reputation_from_message(m))

(***************************************************************************)
(* Table reputation_entries and store_reputation_entries (database.py)     *)
(***************************************************************************)
\* UNIQUE(target, chat_id, message_id)
Key(row) == << row.target, row.chat_id, row.message_id >>

\* int(b) of a boolean
int(b) == IF b THEN 1 ELSE 0

\* the parameters of the INSERT, lines 199-210
StoredRow(entry) ==
    [target |-> Lower(entry.target),
     chat_id |-> entry.chat_id,
     message_id |-> entry.message_id,
     sentiment |-> entry.sentiment,
     has_photo |-> int(entry.has_photo),
     has_media |-> int(entry.has_media),
     content |-> entry.content,
     author_id |-> entry.author_id,
     author_username |-> entry.author_username,
     message_date |-> IF entry.message_date # Null
                      THEN Some(entry.message_date[1].timestamp)
                      ELSE Null]

\* a plain INSERT, with no constraint on the key
InsertOrIgnore_NoConflict(table, row) == Append(table, row)

\* INSERT OR REPLACE: the row of the key is overwritten
InsertOrIgnore_Replace(table, row) ==
    IF \E i \in DOMAIN table : Key(table[i]) = Key(row)
    THEN [i \in DOMAIN table |-> IF Key(table[i]) = Key(row) THEN row ELSE table[i]]
    ELSE Append(table, row)

\* INSERT OR IGNORE under the UNIQUE constraint
InsertOrIgnore(table, row) ==
    IF \E i \in DOMAIN table : Key(table[i]) = Key(row)
    THEN table
    ELSE Append(table, row)

\* counting the statements executed
rowcount_Executed(before, after) == 1

\* cursor.rowcount of the INSERT that took the table from before to after
rowcount(before, after) == Len(after) - Len(before)

RECURSIVE StoreLoop(_, _, _)
\* the loop of store_reputation_entries when no statement fails
StoreLoop(table, batch, count) ==
    IF batch = << >> THEN [rows |-> table, count |-> count]
    ELSE With(InsertOrIgnore(table, StoredRow(batch[1])), LAMBDA after :
            StoreLoop(after, Tail(batch), count + rowcount(table, after)))

\* an upsert that also sets is_active = 1 on a conflict
UpsertGroup_Reactivate(table, chat) ==
    IF chat.id \in DOMAIN table
    THEN [table EXCEPT ![chat.id].title = chat.title,
                       ![chat.id].username = chat.username,
                       ![chat.id].type = chat.type,
                       ![chat.id].is_active = 1]
    ELSE table @@ (chat.id :> [title |-> chat.title, username |-> chat.username,
                               type |-> chat.type, is_active |-> 1,
                               last_processed_message_id |-> Null])

\* INSERT ... ON CONFLICT(chat_id) DO UPDATE of register_group
UpsertGroup(table, chat) ==
    IF chat.id \in DOMAIN table
    THEN [table EXCEPT ![chat.id].title = chat.title,
                       ![chat.id].username = chat.username,
                       ![chat.id].type = chat.type]
    ELSE table @@ (chat.id :> [title |-> chat.title, username |-> chat.username,
                               type |-> chat.type, is_active |-> 1,
                               last_processed_message_id |-> Null])

\* UPDATE groups SET is_active = ? WHERE chat_id = ?
UpdateIsActive(table, chat_id, is_active) ==
    IF chat_id \in DOMAIN table
    THEN [table EXCEPT ![chat_id].is_active = is_active]
    ELSE table

\* UPDATE groups SET last_processed_message_id = ? WHERE chat_id = ?
UpdateLastProcessed(table, chat_id, message_id) ==
    IF chat_id \in DOMAIN table
    THEN [table EXCEPT ![chat_id].last_processed_message_id = Some(message_id)]
    ELSE table

\* what a commit makes durable and a rollback goes back to
Snapshot(table, grouptable) == [rows |-> table, groups |-> grouptable]

ConnIdle ==
    /\ rows = << >>
    /\ in_transaction = FALSE
    /\ groups = << >>
    /\ committed = Snapshot(<< >>, << >>)

(***************************************************************************)
(* A sequence of calls of store_reputation_entries, one after the other    *)
(***************************************************************************)
MaxBatch == 2
MaxRows == 3

Entry(target, message_id, sentiment) ==
    [target |-> target, chat_id |-> -100, message_id |-> message_id,
     sentiment |-> sentiment, has_photo |-> FALSE, has_media |-> FALSE,
     content |-> W_plus_rep, author_id |-> Some(1), author_username |-> Null,
     message_date |-> Some([timestamp |-> 1700000000])]

EntryUniverse ==
    { Entry(t, 42, sn) : t \in { << "a", "b", "c" >>, << "A", "b", "c" >> },
                         sn \in {"positive", "negative"} }
        \cup { Entry(<< "d", "e", "f" >>, 43, "positive") }

Batches == UNION { [1..n -> EntryUniverse] : n \in 0..MaxBatch }

CallIdle ==
    /\ stored_batch = << >>
    /\ stored_count = 0
    /\ rows_before = << >>
    /\ repeated = FALSE

\* store_reputation_entries, lines 181-183: nothing to store
StoreNothing ==
    /\ \E batch \in Batches :
          /\ batch = << >>
          /\ repeated' = (batch = stored_batch)
          /\ stored_batch' = batch
    /\ stored_count' = 0
    /\ rows_before' = rows
    /\ UNCHANGED << connVars, detectorVars, normVars, queryVars, signVars, poolVars, ingestVars >>

\* store_reputation_entries, lines 184-223: BEGIN, the inserts, commit
StoreEntries ==
    /\ ~in_transaction
    /\ Len(rows) <= MaxRows
    /\ \E batch \in Batches :
          /\ batch # << >>
          /\ repeated' = (batch = stored_batch)
          /\ stored_batch' = batch
          /\ \E result \in {StoreLoop(rows, batch, 0)} :
                /\ rows' = result.rows
                /\ stored_count' = result.count
    /\ rows_before' = rows
    /\ in_transaction' = FALSE
    /\ committed' = Snapshot(rows', groups)
    /\ UNCHANGED << groups, detectorVars, normVars, queryVars, signVars, poolVars, ingestVars >>

(***************************************************************************)
(* One chat message ingested by concurrent tasks, each capture_reputation  *)
(* (handlers/reputation.py) or the body of the loop of _refresh_chat       *)
(* (reputation_fetcher.py), on the one connection.  A task moves at an     *)
(* await of a statement of the connection.                                 *)
(***************************************************************************)
MaxTasks == 2

IngestWordSeqs ==
    { << W_plus_rep, W_Abc, W_def >>, << W_minus_rep >>, << W_xyz >> }

IngestMessages ==
    { WithContext(TextMessage(Join(ws, << " " >>)), reply, Some(AuthorUser), att) :
        ws \in IngestWordSeqs,
        reply \in { Null, Some([from_user |-> Some(NamedUser)]) },
        att \in Attachments }

NewTask(kind) ==
    [kind |-> kind, pc |-> "start", entries |-> << >>, next |-> 1, count |-> 0]

IngestIdle ==
    /\ paused = FALSE
    /\ chat_message = TextMessage(<< >>)
    /\ tasks = << >>

IngestInit ==
    /\ paused \in BOOLEAN
    /\ chat_message \in IngestMessages
    /\ tasks \in [1..MaxTasks -> { NewTask(kind) : kind \in {"capture", "fetch"} }]

\* where a task goes with the entries it built
AfterBuild(built) == IF built = << >> THEN "done" ELSE "begin"

\* capture_reputation, lines 28-30: is_paused
CaptureIsPaused(t) ==
    /\ tasks[t].kind = "capture"
    /\ tasks[t].pc = "start"
    /\ tasks' = [tasks EXCEPT ![t].pc = IF paused THEN "done" ELSE "register_group"]
    /\ UNCHANGED << paused, chat_message, connVars, detectorVars, normVars, queryVars, signVars, poolVars, callVars >>

\* register_group, lines 113-123: the upsert opens a transaction
CaptureRegisterGroup(t) ==
    /\ tasks[t].pc = "register_group"
    /\ groups' = UpsertGroup(groups, chat_message.chat)
    /\ in_transaction' = TRUE
    /\ tasks' = [tasks EXCEPT ![t].pc = "register_commit"]
    /\ UNCHANGED << rows, committed, paused, chat_message, detectorVars, normVars, queryVars, signVars, poolVars, callVars >>

\* register_group, line 124: commit; capture_reputation, lines 32-35
CaptureRegisterCommit(t) ==
    /\ tasks[t].pc = "register_commit"
    /\ in_transaction' = FALSE
    /\ \E built \in {build_entries_from_message(chat_message)} :
          tasks' = [tasks EXCEPT ![t].entries = built, ![t].pc = AfterBuild(built)]
    /\ committed' = Snapshot(rows, groups)
    /\ UNCHANGED << rows, groups, paused, chat_message, detectorVars, normVars, queryVars, signVars, poolVars,
                    callVars >>

\* _refresh_chat, lines 106-112
FetchBuildEntries(t) ==
    /\ tasks[t].kind = "fetch"
    /\ tasks[t].pc = "start"
    /\ \E built \in {_build_entries(chat_message, chat_message.chat.id)} :
          tasks' = [tasks EXCEPT ![t].entries = built, ![t].pc = AfterBuild(built)]
    /\ UNCHANGED << paused, chat_message, connVars, detectorVars, normVars, queryVars, signVars, poolVars, callVars >>

\* store_reputation_entries, line 189: BEGIN raises inside a transaction
StoreBegin(t) ==
    /\ tasks[t].pc = "begin"
    /\ IF in_transaction
       THEN /\ tasks' = [tasks EXCEPT ![t].pc = "raised"]
            /\ UNCHANGED in_transaction
       ELSE /\ tasks' = [tasks EXCEPT ![t].pc = "insert", ![t].next = 1, ![t].count = 0]
            /\ in_transaction' = TRUE
    /\ UNCHANGED << rows, groups, committed, paused, chat_message, detectorVars, normVars, queryVars, signVars, poolVars,
                    callVars >>

\* store_reputation_entries, lines 191-213: one INSERT OR IGNORE, which opens
\* a transaction when none is open
StoreInsert(t) ==
    /\ tasks[t].pc = "insert"
    /\ tasks[t].next <= Len(tasks[t].entries)
    /\ rows' = InsertOrIgnore(rows, StoredRow(tasks[t].entries[tasks[t].next]))
    /\ in_transaction' = TRUE
    /\ tasks' = [tasks EXCEPT ![t].next = @ + 1,
                              ![t].count = @ + rowcount(rows, rows')]
    /\ UNCHANGED << groups, committed, paused, chat_message, detectorVars, normVars, queryVars, signVars, poolVars, callVars >>

\* store_reputation_entries, lines 191-214: a statement, or the evaluation of
\* its parameters, raises
StoreInsertRaises(t) ==
    /\ tasks[t].pc = "insert"
    /\ tasks[t].next <= Len(tasks[t].entries)
    /\ tasks' = [tasks EXCEPT ![t].pc = "rollback"]
    /\ UNCHANGED << connVars, paused, chat_message, detectorVars, normVars, queryVars,
                    signVars, poolVars, callVars >>

\* store_reputation_entries, lines 214-217: rollback of the connection, and
\* the exception raised again
StoreRollback(t) ==
    /\ tasks[t].pc = "rollback"
    /\ rows' = committed.rows
    /\ groups' = committed.groups
    /\ in_transaction' = FALSE
    /\ tasks' = [tasks EXCEPT ![t].pc = "failed"]
    /\ UNCHANGED << committed, paused, chat_message, detectorVars, normVars, queryVars,
                    signVars, poolVars, callVars >>

\* store_reputation_entries, lines 218-223: commit; capture_reputation, 37-49
StoreCommit(t) ==
    /\ tasks[t].pc = "insert"
    /\ tasks[t].next > Len(tasks[t].entries)
    /\ in_transaction' = FALSE
    /\ tasks' = [tasks EXCEPT ![t].pc =
                    IF tasks[t].kind = "capture" /\ tasks[t].count # 0
                    THEN "set_last_processed" ELSE "done"]
    /\ committed' = Snapshot(rows, groups)
    /\ UNCHANGED << rows, groups, paused, chat_message, detectorVars, normVars, queryVars, signVars, poolVars,
                    callVars >>

\* set_last_processed_message, lines 566-569: the update opens a transaction
CaptureSetLastProcessed(t) ==
    /\ tasks[t].pc = "set_last_processed"
    /\ groups' = UpdateLastProcessed(groups, chat_message.chat.id,
                                     chat_message.message_id)
    /\ in_transaction' = TRUE
    /\ tasks' = [tasks EXCEPT ![t].pc = "set_last_commit"]
    /\ UNCHANGED << rows, committed, paused, chat_message, detectorVars, normVars, queryVars, signVars, poolVars, callVars >>

\* set_last_processed_message, line 570: commit
CaptureSetLastCommit(t) ==
    /\ tasks[t].pc = "set_last_commit"
    /\ in_transaction' = FALSE
    /\ tasks' = [tasks EXCEPT ![t].pc = "done"]
    /\ committed' = Snapshot(rows, groups)
    /\ UNCHANGED << rows, groups, paused, chat_message, detectorVars, normVars, queryVars, signVars, poolVars,
                    callVars >>

(***************************************************************************)
(* normalize_target applied to a valid target, and again to its result     *)
(***************************************************************************)
MaxNameLen == 3

NameChars == { "A", "b", "_", "7", "u0420" }

\* 3 or more word characters, with or without one "@" before them
RawTargets ==
    { prefix \o name :
        prefix \in { << >>, << "@" >> },
        name \in UNION { [1..n -> NameChars] : n \in MinTargetLen..MaxNameLen } }

ArgumentsIdle ==
    /\ arg_words = << >>
    /\ arg_text = << >>
    /\ arguments = Null

NormIdle ==
    /\ raw_target = << >>
    /\ normalized = << >>
    /\ ArgumentsIdle

NormInit ==
    /\ raw_target \in RawTargets
    /\ normalized = << >>
    /\ ArgumentsIdle

NormalizeTarget ==
    /\ Len(normalized) < 2
    /\ normalized' =
          Append(normalized,
                 normalize_target(IF normalized = << >> THEN raw_target
                                  ELSE normalized[Len(normalized)]))
    /\ UNCHANGED << raw_target, arg_words, arg_text, arguments, detectorVars,
                    signVars, poolVars, connVars, callVars, ingestVars, queryVars >>

(***************************************************************************)
(* parse_rep_arguments (utils/parsing.py)                                  *)
(***************************************************************************)
\* _TRIM_CHARS: , ; : ! . and the em and en dashes
_TRIM_CHARS == { ",", ";", ":", "!", ".", "u2014", "u2013" }

RECURSIVE LStripChars(_, _)
\* str.lstrip(chars)
LStripChars(s, chars) ==
    IF s # << >> /\ s[1] \in chars THEN LStripChars(Tail(s), chars) ELSE s

RECURSIVE RStripChars(_, _)
\* str.rstrip(chars)
RStripChars(s, chars) ==
    IF s # << >> /\ s[Len(s)] \in chars
    THEN RStripChars(SubSeq(s, 1, Len(s) - 1), chars)
    ELSE s

\* str.strip(chars)
StripChars(s, chars) == RStripChars(LStripChars(s, chars), chars)

ShlexWhitespace == { " ", "\t", "\r", "\n" }

RECURSIVE ShlexSplit(_, _, _, _, _)
\* shlex.split(s) in POSIX mode, for texts without ' and \ : the characters
\* from position i on, read in the state "space", "word" or "quote" with the
\* token read so far; an end of the text inside quotes raises ValueError
ShlexSplit(s, i, state, token, parts) ==
    IF i > Len(s)
    THEN IF state = "quote" THEN [raised |-> "ValueError", parts |-> << >>]
         ELSE IF state = "word" THEN [raised |-> None, parts |-> Append(parts, token)]
         ELSE [raised |-> None, parts |-> parts]
    ELSE IF state = "quote"
    THEN IF s[i] = "\""
         THEN ShlexSplit(s, i + 1, "word", token, parts)
         ELSE ShlexSplit(s, i + 1, "quote", Append(token, s[i]), parts)
    ELSE IF s[i] = "\""
    THEN ShlexSplit(s, i + 1, "quote", token, parts)
    ELSE IF s[i] \in ShlexWhitespace
    THEN IF state = "word"
         THEN ShlexSplit(s, i + 1, "space", << >>, Append(parts, token))
         ELSE ShlexSplit(s, i + 1, "space", << >>, parts)
    ELSE ShlexSplit(s, i + 1, "word", Append(token, s[i]), parts)

RECURSIVE Cleaned(_)
\* the loop of lines 16-20: the parts stripped, the empty ones left out
Cleaned(parts) ==
    IF parts = << >> THEN << >>
    ELSE (IF StripChars(parts[1], _TRIM_CHARS) # << >>
          THEN << StripChars(parts[1], _TRIM_CHARS) >> ELSE << >>)
            \o Cleaned(Tail(parts))

\* _COMMAND_PATTERN without the optional group: ^/(?:rep|r)$
_COMMAND_PATTERN_NoBotName(first) ==
    first \in { << "/", "r", "e", "p" >>, << "/", "r" >> }

\* _COMMAND_PATTERN.match: ^/(?:rep|r)(?:@[\w\d_]{3,32})?$
_COMMAND_PATTERN(first) ==
    \E command \in { << "/", "r", "e", "p" >>, << "/", "r" >> } :
        /\ Len(first) >= Len(command)
        /\ SubSeq(first, 1, Len(command)) = command
        /\ \/ Len(first) = Len(command)
           \/ /\ first[Len(command) + 1] = "@"
              /\ Len(first) - Len(command) - 1 \in 3..32
              /\ \A k \in (Len(command) + 2)..Len(first) : IsWordChar(first[k])

\* lines 21-32: what is returned for the cleaned tokens
Arguments(cleaned) ==
    IF cleaned = << >> THEN [raised |-> None, target |-> Null, chat_title |-> Null]
    ELSE [raised |-> None,
          target |-> Some(cleaned[1]),
          chat_title |-> IF Len(cleaned) > 1 THEN Some(cleaned[2]) ELSE Null]

\* lines 24-26: the command token dropped
WithoutCommand(cleaned) ==
    IF cleaned # << >> /\ _COMMAND_PATTERN(Lower(cleaned[1]))
    THEN Tail(cleaned) ELSE cleaned

parse_rep_arguments(text) ==
    With(ShlexSplit(LStripChars(text, {" ", "\t"} \cup _TRIM_CHARS), 1, "space",
                    << >>, << >>),
         LAMBDA split :
            IF split.raised # None
            THEN [raised |-> split.raised, target |-> Null, chat_title |-> Null]
            ELSE Arguments(WithoutCommand(Cleaned(split.parts))))

MaxWords == 3

\* the words of the texts: commands, targets, punctuation, quoted titles
ArgumentWords ==
    { << "/", "r" >>, << "/", "r", "e", "p" >>,
      << "/", "R", "@", "M", "y", "_", "B", "o", "t", "1" >>,
      << "/", "r", "@", "a", "b" >>,
      << "@", "T", "g", "t" >>, << "x", "," >>, << "," >>,
      << "\"", "S", "o", "m", "e" >>, << "C", "h", "a", "t", "\"" >>,
      << "\"", "\"" >> }

ArgumentsInit ==
    /\ arg_words \in UNION { [1..n -> ArgumentWords] : n \in 0..MaxWords }
    /\ arg_text \in { prefix \o Join(arg_words, << " " >>) :
                        prefix \in { << >>, << ",", " " >> } }
    /\ arguments = Null
    /\ raw_target = << >>
    /\ normalized = << >>

ParseRepArguments ==
    /\ arguments = Null
    /\ arguments' = Some(parse_rep_arguments(arg_text))
    /\ UNCHANGED << raw_target, normalized, arg_words, arg_text, detectorVars,
                    signVars, poolVars, connVars, callVars, ingestVars, queryVars >>

(***************************************************************************)
(* fetch_summary and the manual-adjustment ledger (database.py,            *)
(* services/models.py)                                                     *)
(***************************************************************************)
\* WHERE target = ? [AND chat_id = ?], on either table; chat is the optional
\* chat_id of the call
Matches(row, target_key, chat) ==
    /\ row.target = target_key
    /\ chat # Null => row.chat_id = chat

\* SUM(CASE WHEN sentiment = ... [AND (has_photo = 1 OR has_media = 1)] ...),
\* with "or 0" for the NULL of an empty selection
CountEntries(table, target_key, chat, sentiment, with_media) ==
    Cardinality({ i \in DOMAIN table :
                    /\ Matches([table[i] EXCEPT !.chat_id = Some(@)], target_key, chat)
                    /\ table[i].sentiment = sentiment
                    /\ with_media => (table[i].has_photo = 1 \/ table[i].has_media = 1) })

RECURSIVE SumDeltas(_, _, _, _)
\* COALESCE(SUM(positive_delta), 0) and COALESCE(SUM(negative_delta), 0)
SumDeltas(ledger, target_key, chat, sentiment) ==
    IF ledger = << >> THEN 0
    ELSE (IF Matches(ledger[1], target_key, chat) THEN ledger[1][sentiment] ELSE 0)
            + SumDeltas(Tail(ledger), target_key, chat, sentiment)

max(a, b) == IF a >= b THEN a ELSE b
min(a, b) == IF a <= b THEN a ELSE b

\* counting without the adjustments
Combined_NoAdjustment(raw, adjustment) == max(0, raw)

\* adding without the clamp
Combined_NoClamp(raw, adjustment) == raw + adjustment

\* lines 316-317: max(0, (positive or 0) + pos_adj)
Combined(raw, adjustment) == max(0, raw + adjustment)

\* the fields of the dataclass ReputationSummary (models.py, lines 35-44)
ReputationSummaryFields ==
    { "target", "chat_id", "chat_title", "positive", "negative",
      "positive_with_media", "negative_with_media", "details" }

\* ReputationSummary(**kwargs): the generated __init__ takes its fields only
ReputationSummary(kwargs) ==
    IF DOMAIN kwargs = ReputationSummaryFields
    THEN [raised |-> None, value |-> Some(kwargs)]
    ELSE [raised |-> "TypeError", value |-> Null]

\* the counts of fetch_summary, lines 282-319
SummaryCounts(positive, negative, table, target_key, chat) ==
    [positive |-> positive,
     negative |-> negative,
     positive_with_media |->
        max(0, min(positive, CountEntries(table, target_key, chat, "positive", TRUE))),
     negative_with_media |->
        max(0, min(negative, CountEntries(table, target_key, chat, "negative", TRUE)))]

\* the details selected, lines 321-349, and their number, lines 351-354
Details(table, target_key, chat) ==
    { i \in DOMAIN table :
        Matches([table[i] EXCEPT !.chat_id = Some(@)], target_key, chat) }

\* lines 372-382: the call of the constructor
SummaryOf(target, chat, chat_title, counts, details) ==
    ReputationSummary(
        [target |-> target, chat_id |-> chat, chat_title |-> chat_title,
         positive |-> counts.positive, negative |-> counts.negative,
         positive_with_media |-> counts.positive_with_media,
         negative_with_media |-> counts.negative_with_media,
         details |-> details, details_total |-> Cardinality(details)])

\* fetch_summary(target, chat_id): the counts it computes and how it ends
fetch_summary(table, ledger, grouptable, target, chat) ==
    With(SummaryCounts(
            Combined(CountEntries(table, Lower(target), chat, "positive", FALSE),
                     SumDeltas(ledger, Lower(target), chat, "positive_delta")),
            Combined(CountEntries(table, Lower(target), chat, "negative", FALSE),
                     SumDeltas(ledger, Lower(target), chat, "negative_delta")),
            table, Lower(target), chat),
         LAMBDA counts :
            [target |-> target, chat_id |-> chat, counts |-> counts,
             result |-> SummaryOf(target, chat,
                                  IF chat # Null /\ chat[1] \in DOMAIN grouptable
                                  THEN Some("title") ELSE Null,
                                  counts, Details(table, Lower(target), chat))])

(***************************************************************************)
(* The operations of Database, called one after the other                  *)
(***************************************************************************)
MaxAdjustments == 2
MaxRequests == 1

\* the arguments of add_manual_adjustment: target, chat_id, the two deltas
AdjustmentArgs ==
    { [target |-> << "A", "b", "c" >>, chat_id |-> chat,
       positive_delta |-> d[1], negative_delta |-> d[2]] :
        chat \in { Null, Some(-100) },
        d \in { << 1, 0 >>, << -2, -2 >> } }

\* the row of an older version of the bot, inserted as it was written
LegacyRow ==
    [StoredRow(Entry(<< "@", "A", "b", "c" >>, 44, "positive"))
        EXCEPT !.target = << "@", "A", "b", "c" >>]

FetchTargets ==
    { << "a", "b", "c" >>, << "A", "b", "c" >>, << "A", "B", "C" >> }

QueryIdle ==
    /\ adjustments = << >>
    /\ fetched = Null
    /\ users = << >>
    /\ member_status = Null

\* store_reputation_entries, lines 180-223, called with one entry
StoreEntry ==
    /\ ~in_transaction
    /\ \E entry \in EntryUniverse :
          /\ repeated' = (<< entry >> = stored_batch)
          /\ stored_batch' = << entry >>
          /\ \E result \in {StoreLoop(rows, << entry >>, 0)} :
                /\ rows' = result.rows
                /\ stored_count' = result.count
    /\ rows_before' = rows
    /\ in_transaction' = FALSE
    /\ fetched' = Null
    /\ committed' = Snapshot(rows', groups)
    /\ UNCHANGED << groups, member_status, adjustments, users, detectorVars, signVars, poolVars, normVars,
                    ingestVars >>

\* test_database_summary.py, lines 48-67: the legacy row, inserted directly
InsertLegacyRow ==
    /\ ~in_transaction
    /\ \A i \in DOMAIN rows : Key(rows[i]) # Key(LegacyRow)
    /\ rows' = Append(rows, LegacyRow)
    /\ fetched' = Null
    /\ committed' = Snapshot(rows', groups)
    /\ UNCHANGED << in_transaction, groups, member_status, adjustments, users, callVars,
                    detectorVars, signVars, poolVars, normVars, ingestVars >>

\* add_manual_adjustment, lines 225-234
AddManualAdjustment ==
    /\ ~in_transaction
    /\ Len(adjustments) < MaxAdjustments
    /\ \E args \in AdjustmentArgs :
          adjustments' = Append(adjustments, [args EXCEPT !.target = Lower(@)])
    /\ fetched' = Null
    /\ UNCHANGED << connVars, member_status, users, callVars, detectorVars, signVars, poolVars,
                    normVars, ingestVars >>

\* fetch_summary, lines 274-382
FetchSummary ==
    /\ ~in_transaction
    /\ \E target \in FetchTargets, chat \in { Null, Some(-100) } :
          fetched' = Some(fetch_summary(rows, adjustments, groups, target, chat))
    /\ UNCHANGED << connVars, member_status, adjustments, users, callVars, detectorVars, signVars, poolVars,
                    normVars, ingestVars >>

\* the chats of the calls and updates
Chats == { GroupChat, RenamedChat }

\* ChatMemberStatus
ChatMemberStatuses ==
    { "creator", "administrator", "member", "restricted", "left", "kicked" }

\* on_chat_member (handlers/basic.py), lines 96-103
OnChatMember ==
    /\ ~in_transaction
    /\ \E chat \in Chats, status \in ChatMemberStatuses :
          /\ member_status' = Some(status)
          /\ groups' =
                IF status \in { "member", "administrator" }
                THEN UpsertGroup(groups, chat)
                ELSE IF status \in { "left", "kicked", "restricted" }
                THEN UpdateIsActive(groups, chat.id, 0)
                ELSE groups
    /\ committed' = Snapshot(rows, groups')
    /\ UNCHANGED << rows, in_transaction, adjustments, fetched, users, callVars,
                    detectorVars, signVars, poolVars, normVars, ingestVars >>

\* register_group, lines 112-124
RegisterGroup ==
    /\ ~in_transaction
    /\ \E chat \in Chats : groups' = UpsertGroup(groups, chat)
    /\ committed' = Snapshot(rows, groups')
    /\ UNCHANGED << rows, in_transaction, queryVars, callVars, detectorVars,
                    signVars, poolVars, normVars, ingestVars >>

\* deactivate_group, lines 126-128
DeactivateGroup ==
    /\ ~in_transaction
    /\ groups' = UpdateIsActive(groups, -100, 0)
    /\ committed' = Snapshot(rows, groups')
    /\ UNCHANGED << rows, in_transaction, queryVars, callVars, detectorVars,
                    signVars, poolVars, normVars, ingestVars >>

\* activate_group, lines 130-132
ActivateGroup ==
    /\ ~in_transaction
    /\ groups' = UpdateIsActive(groups, -100, 1)
    /\ committed' = Snapshot(rows, groups')
    /\ UNCHANGED << rows, in_transaction, queryVars, callVars, detectorVars,
                    signVars, poolVars, normVars, ingestVars >>

\* set_last_processed_message, lines 565-570
SetLastProcessedMessage ==
    /\ ~in_transaction
    /\ groups' = UpdateLastProcessed(groups, -100, 42)
    /\ committed' = Snapshot(rows, groups')
    /\ UNCHANGED << rows, in_transaction, queryVars, callVars, detectorVars,
                    signVars, poolVars, normVars, ingestVars >>

\* toggle_pause, lines 548-554
TogglePause ==
    /\ ~in_transaction
    /\ \E value \in BOOLEAN : paused' = value
    /\ UNCHANGED << connVars, queryVars, callVars, detectorVars, signVars, poolVars, normVars,
                    chat_message, tasks >>

\* ensure_user, lines 134-147: the names it updates are not in the model
EnsureUser ==
    /\ ~in_transaction
    /\ users' = IF 7 \in DOMAIN users THEN users
                ELSE users @@ (7 :> [request_count |-> 0, blocked |-> 0])
    /\ UNCHANGED << connVars, member_status, adjustments, fetched, callVars, detectorVars, signVars, poolVars,
                    normVars, ingestVars >>

\* increment_user_requests, lines 149-154
IncrementUserRequests ==
    /\ ~in_transaction
    /\ \A u \in DOMAIN users : users[u].request_count < MaxRequests
    /\ users' = [u \in DOMAIN users |->
                    IF u = 7 THEN [users[u] EXCEPT !.request_count = @ + 1]
                    ELSE users[u]]
    /\ UNCHANGED << connVars, member_status, adjustments, fetched, callVars, detectorVars, signVars, poolVars,
                    normVars, ingestVars >>

\* set_user_blocked, lines 156-158
SetUserBlocked ==
    /\ ~in_transaction
    /\ \E blocked \in BOOLEAN :
          users' = [u \in DOMAIN users |->
                        IF u = 7 THEN [users[u] EXCEPT !.blocked = int(blocked)]
                        ELSE users[u]]
    /\ UNCHANGED << connVars, member_status, adjustments, fetched, callVars, detectorVars, signVars, poolVars,
                    normVars, ingestVars >>

(***************************************************************************)
(* PyrogramAccountPool (services/account_pool.py): concurrent calls of     *)
(* configure, refresh, acquire and close on one pool.  A call moves at an  *)
(* await; the administrators change the account list in between.           *)
(***************************************************************************)
MaxAccounts == 2
MaxCalls == 2
MaxAcquires == 2
MaxChanges == 1

Sessions == 1..MaxAccounts

NoCredentials == [api_id |-> Null, api_hash |-> Null]

\* the arguments of configure
Credentials ==
    { NoCredentials,
      [api_id |-> Some(1), api_hash |-> Null],
      [api_id |-> Some(1), api_hash |-> Some("hash")] }

\* not (not self._api_id or not self._api_hash)
HasCredentials(api_id, api_hash) ==
    /\ api_id # Null /\ api_id # Some(0)
    /\ api_hash # Null /\ api_hash # Some("")

IdleCall ==
    [kind |-> "none", pc |-> "idle", args |-> NoCredentials, accounts |-> << >>,
     i |-> 1, version |-> 0]

PoolIdle ==
    /\ accounts_api = FALSE
    /\ account_rows = << >>
    /\ account_version = 0
    /\ _clients = {}
    /\ started = << >>
    /\ _order = << >>
    /\ _index = 0
    /\ _api_id = Null
    /\ _api_hash = Null
    /\ _lock = 0
    /\ calls = << >>
    /\ acquired = << >>

\* the lists of distinct session names
RECURSIVE AccountLists(_)
AccountLists(sessions) ==
    { << >> } \cup UNION { { << s >> \o rest : rest \in AccountLists(sessions \ {s}) } :
                            s \in sessions }

\* __init__, lines 18-27; the db is the repository's Database, which has no
\* pyrogram account methods, or an object that has them and a list of accounts
PoolInit ==
    /\ accounts_api \in BOOLEAN
    /\ account_rows \in IF accounts_api THEN AccountLists(Sessions) ELSE { << >> }
    /\ account_version = 0
    /\ _clients = {}
    /\ started = [s \in Sessions |-> 0]
    /\ _order = << >>
    /\ _index = 0
    /\ _api_id = Null
    /\ _api_hash = Null
    /\ _lock = 0
    /\ calls = [t \in 1..MaxCalls |-> IdleCall]
    /\ acquired = << >>

\* the elements of seq that are in keep, in the order of seq
RECURSIVE Filter(_, _)
Filter(seq, keep) ==
    IF seq = << >> THEN << >>
    ELSE (IF seq[1] \in keep THEN << seq[1] >> ELSE << >>) \o Filter(Tail(seq), keep)

\* client.stop() called on the clients of the sessions in stopped
Stopped(running, stopped) ==
    [s \in DOMAIN running |-> IF s \in stopped THEN running[s] - 1 ELSE running[s]]

\* the calls of acquire that have not ended
AcquiresInFlight ==
    { t \in DOMAIN calls : calls[t].kind = "acquire" /\ calls[t].pc # "idle" }

\* how a call of acquire ended
Ended(t, result, session) ==
    [result |-> result, session |-> session, index |-> _index,
     credentials |-> HasCredentials(_api_id, _api_hash),
     active |-> account_rows,
     version |-> account_version,
     stable |-> calls[t].pc # "refresh" => calls[t].version = account_version]

\* the lock released at the end of `async with`, by a return or an exception
Leave(t, result, session) ==
    /\ _lock' = 0
    /\ calls' = [calls EXCEPT ![t] = IdleCall]
    /\ acquired' = IF calls[t].kind = "acquire"
                   THEN Append(acquired, Ended(t, result, session))
                   ELSE acquired

\* a call arrives at `async with self._lock`, lines 30, 40, 44, 55
PoolCall(t) ==
    /\ calls[t].pc = "idle"
    /\ \E kind \in { "configure", "refresh", "acquire", "close" }, args \in Credentials :
          /\ kind # "configure" => args = NoCredentials
          /\ kind = "acquire"
             => Len(acquired) + Cardinality(AcquiresInFlight) < MaxAcquires
          /\ calls' = [calls EXCEPT ![t] = [IdleCall EXCEPT !.kind = kind,
                                                             !.pc = "lock",
                                                             !.args = args]]
    /\ UNCHANGED << accounts_api, account_rows, account_version, _clients, started,
                    _order, _index, _api_id, _api_hash, _lock, acquired >>
    /\ UNCHANGED << detectorVars, signVars, connVars, callVars, ingestVars, normVars,
                    queryVars >>

\* a lock that is taken also while another call holds it
LockAcquire_NoWait(t) ==
    /\ calls[t].pc = "lock"
    /\ _lock' = t
    /\ calls' = [calls EXCEPT ![t].pc =
                    IF calls[t].kind \in { "configure", "close" }
                    THEN calls[t].kind ELSE "refresh"]
    /\ UNCHANGED << accounts_api, account_rows, account_version, _clients, started,
                    _order, _index, _api_id, _api_hash, acquired >>
    /\ UNCHANGED << detectorVars, signVars, connVars, callVars, ingestVars, normVars,
                    queryVars >>

\* asyncio.Lock.acquire: the lock is taken when it is free
LockAcquire(t) ==
    /\ calls[t].pc = "lock"
    /\ _lock = 0
    /\ _lock' = t
    /\ calls' = [calls EXCEPT ![t].pc =
                    IF calls[t].kind \in { "configure", "close" }
                    THEN calls[t].kind ELSE "refresh"]
    /\ UNCHANGED << accounts_api, account_rows, account_version, _clients, started,
                    _order, _index, _api_id, _api_hash, acquired >>
    /\ UNCHANGED << detectorVars, signVars, connVars, callVars, ingestVars, normVars,
                    queryVars >>

\* configure, lines 31-38; _close_all_locked, lines 106-114
Configure(t) ==
    /\ calls[t].pc = "configure"
    /\ IF _api_id = calls[t].args.api_id /\ _api_hash = calls[t].args.api_hash
       THEN UNCHANGED << _clients, started, _order, _index, _api_id, _api_hash >>
       ELSE /\ started' = Stopped(started, _clients)
            /\ _clients' = {}
            /\ _order' = << >>
            /\ _index' = 0
            /\ _api_id' = calls[t].args.api_id
            /\ _api_hash' = calls[t].args.api_hash
    /\ calls' = [calls EXCEPT ![t].pc = "refresh"]
    /\ UNCHANGED << accounts_api, account_rows, account_version, _lock, acquired >>
    /\ UNCHANGED << detectorVars, signVars, connVars, callVars, ingestVars, normVars,
                    queryVars >>

\* close, lines 54-56; _close_all_locked, lines 106-114
Close(t) ==
    /\ calls[t].pc = "close"
    /\ started' = Stopped(started, _clients)
    /\ _clients' = {}
    /\ _order' = << >>
    /\ _index' = 0
    /\ Leave(t, "returned", 0)
    /\ UNCHANGED << accounts_api, account_rows, account_version, _api_id, _api_hash >>
    /\ UNCHANGED << detectorVars, signVars, connVars, callVars, ingestVars, normVars,
                    queryVars >>

\* _refresh_locked, lines 59-62: no credentials
RefreshNoCredentials(t) ==
    /\ calls[t].pc = "refresh"
    /\ ~HasCredentials(_api_id, _api_hash)
    /\ started' = Stopped(started, _clients)
    /\ _clients' = {}
    /\ _order' = << >>
    /\ _index' = 0
    /\ calls' = [calls EXCEPT ![t].pc = "refreshed", ![t].version = account_version]
    /\ UNCHANGED << accounts_api, account_rows, account_version, _api_id, _api_hash,
                    _lock, acquired >>
    /\ UNCHANGED << detectorVars, signVars, connVars, callVars, ingestVars, normVars,
                    queryVars >>

\* _refresh_locked, line 64, with the repository's Database: the attribute
\* list_pyrogram_accounts does not exist
RefreshAttributeError(t) ==
    /\ calls[t].pc = "refresh"
    /\ HasCredentials(_api_id, _api_hash)
    /\ ~accounts_api
    /\ Leave(t, "AttributeError", 0)
    /\ UNCHANGED << accounts_api, account_rows, account_version, _clients, started,
                    _order, _index, _api_id, _api_hash >>
    /\ UNCHANGED << detectorVars, signVars, connVars, callVars, ingestVars, normVars,
                    queryVars >>

\* _refresh_locked, lines 64-74: the list of the active accounts, and the
\* clients of the other sessions stopped and removed
RefreshList(t) ==
    /\ calls[t].pc = "refresh"
    /\ HasCredentials(_api_id, _api_hash)
    /\ accounts_api
    /\ started' = Stopped(started, _clients \ Range(account_rows))
    /\ _clients' = _clients \cap Range(account_rows)
    /\ calls' = [calls EXCEPT ![t].pc = "start", ![t].accounts = account_rows,
                              ![t].i = 1, ![t].version = account_version]
    /\ UNCHANGED << accounts_api, account_rows, account_version, _order, _index,
                    _api_id, _api_hash, _lock, acquired >>
    /\ UNCHANGED << detectorVars, signVars, connVars, callVars, ingestVars, normVars,
                    queryVars >>

\* _refresh_locked, lines 77-79: the session has a client
StartSkip(t) ==
    /\ calls[t].pc = "start"
    /\ calls[t].i <= Len(calls[t].accounts)
    /\ calls[t].accounts[calls[t].i] \in _clients
    /\ calls' = [calls EXCEPT ![t].i = @ + 1]
    /\ UNCHANGED << accounts_api, account_rows, account_version, _clients, started,
                    _order, _index, _api_id, _api_hash, _lock, acquired >>
    /\ UNCHANGED << detectorVars, signVars, connVars, callVars, ingestVars, normVars,
                    queryVars >>

\* _refresh_locked, lines 80-100: client.start() returns, at once or after a
\* FloodWait and the sleep
StartClient(t) ==
    /\ calls[t].pc = "start"
    /\ calls[t].i <= Len(calls[t].accounts)
    /\ calls[t].accounts[calls[t].i] \notin _clients
    /\ _clients' = _clients \cup { calls[t].accounts[calls[t].i] }
    /\ started' = [started EXCEPT ![calls[t].accounts[calls[t].i]] = @ + 1]
    /\ calls' = [calls EXCEPT ![t].i = @ + 1]
    /\ UNCHANGED << accounts_api, account_rows, account_version, _order, _index,
                    _api_id, _api_hash, _lock, acquired >>
    /\ UNCHANGED << detectorVars, signVars, connVars, callVars, ingestVars, normVars,
                    queryVars >>

\* _refresh_locked, lines 89-93: AuthKeyUnregistered, the account deactivated
StartUnregistered(t) ==
    /\ calls[t].pc = "start"
    /\ calls[t].i <= Len(calls[t].accounts)
    /\ calls[t].accounts[calls[t].i] \notin _clients
    /\ account_rows' = Filter(account_rows, Sessions \ { calls[t].accounts[calls[t].i] })
    /\ account_version' =
          IF account_rows' = account_rows THEN account_version ELSE account_version + 1
    /\ calls' = [calls EXCEPT ![t].i = @ + 1]
    /\ UNCHANGED << accounts_api, _clients, started, _order, _index, _api_id,
                    _api_hash, _lock, acquired >>
    /\ UNCHANGED << detectorVars, signVars, connVars, callVars, ingestVars, normVars,
                    queryVars >>

\* _refresh_locked, lines 87-99: client.start() raises another exception, the
\* first time or after the sleep; self._order is left as it was
StartRaises(t) ==
    /\ calls[t].pc = "start"
    /\ calls[t].i <= Len(calls[t].accounts)
    /\ calls[t].accounts[calls[t].i] \notin _clients
    /\ Leave(t, "Exception", 0)
    /\ UNCHANGED << accounts_api, account_rows, account_version, _clients, started,
                    _order, _index, _api_id, _api_hash >>
    /\ UNCHANGED << detectorVars, signVars, connVars, callVars, ingestVars, normVars,
                    queryVars >>

\* _refresh_locked, lines 102-104
RefreshOrder(t) ==
    /\ calls[t].pc = "start"
    /\ calls[t].i > Len(calls[t].accounts)
    /\ _order' = Filter(calls[t].accounts, _clients)
    /\ _index' = IF _order' = << >> THEN 0 ELSE _index
    /\ calls' = [calls EXCEPT ![t].pc = "refreshed"]
    /\ UNCHANGED << accounts_api, account_rows, account_version, _clients, started,
                    _api_id, _api_hash, _lock, acquired >>
    /\ UNCHANGED << detectorVars, signVars, connVars, callVars, ingestVars, normVars,
                    queryVars >>

\* configure, lines 33 and 38, and refresh, line 41: the call returns
RefreshReturn(t) ==
    /\ calls[t].pc = "refreshed"
    /\ calls[t].kind # "acquire"
    /\ Leave(t, "returned", 0)
    /\ UNCHANGED << accounts_api, account_rows, account_version, _clients, started,
                    _order, _index, _api_id, _api_hash >>
    /\ UNCHANGED << detectorVars, signVars, connVars, callVars, ingestVars, normVars,
                    queryVars >>

\* the session name acquire picks, line 48
Picked(order, index) == order[(index % Len(order)) + 1]

\* acquire, lines 46-52
Acquire(t) ==
    /\ calls[t].pc = "refreshed"
    /\ calls[t].kind = "acquire"
    /\ IF _order = << >>
       THEN /\ Leave(t, "RuntimeError", 0)
            /\ UNCHANGED _index
       ELSE /\ _index' = _index + 1
            /\ IF Picked(_order, _index) \in _clients
               THEN Leave(t, "client", Picked(_order, _index))
               ELSE Leave(t, "KeyError", 0)
    /\ UNCHANGED << accounts_api, account_rows, account_version, _clients, started,
                    _order, _api_id, _api_hash >>
    /\ UNCHANGED << detectorVars, signVars, connVars, callVars, ingestVars, normVars,
                    queryVars >>

\* an administrator adds an account (handlers/admin.py, lines 825 and 852) or
\* takes one out of the active accounts
ChangeAccounts ==
    /\ accounts_api
    /\ account_version < MaxChanges
    /\ \E s \in Sessions :
          account_rows' = IF s \in Range(account_rows)
                          THEN Filter(account_rows, Sessions \ {s})
                          ELSE Append(account_rows, s)
    /\ account_version' = account_version + 1
    /\ UNCHANGED << accounts_api, _clients, started, _order, _index, _api_id,
                    _api_hash, _lock, calls, acquired >>
    /\ UNCHANGED << detectorVars, signVars, connVars, callVars, ingestVars, normVars,
                    queryVars >>

(***************************************************************************)
(* Specifications                                                          *)
(***************************************************************************)
DetectorStart == DetectorInit /\ SignIdle /\ ConnIdle /\ CallIdle /\ IngestIdle
    /\ NormIdle /\ QueryIdle /\ PoolIdle

SpecDetector == DetectorStart /\ [][DetectorNext]_vars

SignStart == SignInit /\ DetectorIdle /\ ConnIdle /\ CallIdle /\ IngestIdle
    /\ NormIdle /\ QueryIdle /\ PoolIdle

SignNext == ResolveSentiment

SpecSign == SignStart /\ [][SignNext]_vars

StoreStart == ConnIdle /\ CallIdle /\ DetectorIdle /\ SignIdle /\ IngestIdle
    /\ NormIdle /\ QueryIdle /\ PoolIdle

StoreNext ==
    \/ StoreNothing
    \/ StoreEntries

SpecStore == StoreStart /\ [][StoreNext]_vars

IngestStart == IngestInit /\ ConnIdle /\ CallIdle /\ DetectorIdle /\ SignIdle
    /\ NormIdle /\ QueryIdle /\ PoolIdle

IngestNext ==
    \/ \E t \in DOMAIN tasks : CaptureIsPaused(t)
    \/ \E t \in DOMAIN tasks : CaptureRegisterGroup(t)
    \/ \E t \in DOMAIN tasks : CaptureRegisterCommit(t)
    \/ \E t \in DOMAIN tasks : FetchBuildEntries(t)
    \/ \E t \in DOMAIN tasks : StoreBegin(t)
    \/ \E t \in DOMAIN tasks : StoreInsert(t)
    \/ \E t \in DOMAIN tasks : StoreInsertRaises(t)
    \/ \E t \in DOMAIN tasks : StoreRollback(t)
    \/ \E t \in DOMAIN tasks : StoreCommit(t)
    \/ \E t \in DOMAIN tasks : CaptureSetLastProcessed(t)
    \/ \E t \in DOMAIN tasks : CaptureSetLastCommit(t)

SpecIngest == IngestStart /\ [][IngestNext]_vars

NormStart ==
    NormInit /\ DetectorIdle /\ SignIdle /\ ConnIdle /\ CallIdle /\ IngestIdle
    /\ QueryIdle /\ PoolIdle

NormNext == NormalizeTarget

SpecNormalize == NormStart /\ [][NormNext]_vars

ArgumentsStart ==
    ArgumentsInit /\ DetectorIdle /\ SignIdle /\ ConnIdle /\ CallIdle /\ IngestIdle
    /\ QueryIdle /\ PoolIdle

ArgumentsNext == ParseRepArguments

SpecArguments == ArgumentsStart /\ [][ArgumentsNext]_vars

DatabaseStart ==
    ConnIdle /\ QueryIdle /\ PoolIdle /\ CallIdle /\ DetectorIdle /\ SignIdle /\ IngestIdle
    /\ NormIdle

SummaryNext ==
    \/ StoreEntry
    \/ InsertLegacyRow
    \/ AddManualAdjustment
    \/ FetchSummary

SpecSummary == DatabaseStart /\ [][SummaryNext]_vars

DatabaseNext ==
    \/ StoreEntry
    \/ AddManualAdjustment
    \/ RegisterGroup
    \/ DeactivateGroup
    \/ ActivateGroup
    \/ SetLastProcessedMessage
    \/ TogglePause
    \/ EnsureUser
    \/ IncrementUserRequests
    \/ SetUserBlocked

SpecDatabase == DatabaseStart /\ [][DatabaseNext]_vars

\* the operations on the table groups, with the my_chat_member updates
GroupsNext ==
    \/ StoreEntry
    \/ RegisterGroup
    \/ OnChatMember
    \/ DeactivateGroup
    \/ ActivateGroup
    \/ SetLastProcessedMessage
    \/ TogglePause

SpecGroups == DatabaseStart /\ [][GroupsNext]_vars

PoolStart ==
    PoolInit /\ ConnIdle /\ QueryIdle /\ CallIdle /\ DetectorIdle /\ SignIdle
    /\ IngestIdle /\ NormIdle

PoolNext ==
    \/ \E t \in DOMAIN calls : PoolCall(t)
    \/ \E t \in DOMAIN calls : LockAcquire(t)
    \/ \E t \in DOMAIN calls : Configure(t)
    \/ \E t \in DOMAIN calls : Close(t)
    \/ \E t \in DOMAIN calls : RefreshNoCredentials(t)
    \/ \E t \in DOMAIN calls : RefreshAttributeError(t)
    \/ \E t \in DOMAIN calls : RefreshList(t)
    \/ \E t \in DOMAIN calls : StartSkip(t)
    \/ \E t \in DOMAIN calls : StartClient(t)
    \/ \E t \in DOMAIN calls : StartUnregistered(t)
    \/ \E t \in DOMAIN calls : StartRaises(t)
    \/ \E t \in DOMAIN calls : RefreshOrder(t)
    \/ \E t \in DOMAIN calls : RefreshReturn(t)
    \/ \E t \in DOMAIN calls : Acquire(t)
    \/ ChangeAccounts

SpecPool == PoolStart /\ [][PoolNext]_vars

(***************************************************************************)
(* What the words of a text mean, written out for the vocabulary           *)
(***************************************************************************)
AllMentionWords == MentionWords \cup {W_ghi}

WordTarget(w) ==
    IF w \in {W_Abc, W_abc} THEN << "a", "b", "c" >>
    ELSE IF w = W_def THEN << "d", "e", "f" >>
    ELSE << "g", "h", "i" >>

WordSentiment(w) == IF w = W_plus_rep THEN "positive" ELSE "negative"

IsTokenText(ws) ==
    \A i \in DOMAIN ws : ws[i] \in SignWords \cup AllMentionWords

DistinctTargets(ws) ==
    \A i, j \in DOMAIN ws :
        (i # j /\ ws[i] \in AllMentionWords /\ ws[j] \in AllMentionWords)
            => WordTarget(ws[i]) # WordTarget(ws[j])

\* the nearest sign word before position i
SignBefore(ws, i) ==
    ws[CHOOSE j \in 1..(i - 1) :
          /\ ws[j] \in SignWords
          /\ \A k \in (j + 1)..(i - 1) : ws[k] \notin SignWords]

MentionsWithNearestSign(ws) ==
    { [target |-> WordTarget(ws[i]), sentiment |-> WordSentiment(SignBefore(ws, i))] :
        i \in { k \in DOMAIN ws : ws[k] \in AllMentionWords } }

HasUpper(s) == \E i \in DOMAIN s : s[i] \in Range(UpperLetters)

\* C1: for a text made only of sign tokens and mention tokens with pairwise
\* distinct targets that starts with a sign token, extract_reputation returns
\* exactly the mentioned targets, each with the sentiment of the nearest sign
\* token before it
C1_ExactlyMentionsWithNearestSign ==
    (pc = "extracted" /\ words # << >> /\ words[1] \in SignWords
        /\ IsTokenText(words) /\ DistinctTargets(words))
    => /\ Range(parsed) = MentionsWithNearestSign(words)
       /\ Len(parsed) = Cardinality(MentionsWithNearestSign(words))

\* auxiliary: the same, for texts where no sign token directly follows
\* another sign token
SignTokensApart ==
    (pc = "extracted" /\ words # << >> /\ words[1] \in SignWords
        /\ IsTokenText(words) /\ DistinctTargets(words)
        /\ \A i \in 1..(Len(words) - 1) :
              ~(words[i] \in SignWords /\ words[i + 1] \in SignWords))
    => /\ Range(parsed) = MentionsWithNearestSign(words)
       /\ Len(parsed) = Cardinality(MentionsWithNearestSign(words))

\* C2: for a text of one or more distinct mentions followed by one sign token,
\* extract_reputation returns every one of the mentions with the sentiment of
\* that token
C2_SignAfterMentionsAppliesToAll ==
    (/\ pc = "extracted"
     /\ Len(words) >= 2
     /\ words[Len(words)] \in SignWords
     /\ \A i \in 1..(Len(words) - 1) : words[i] \in AllMentionWords
     /\ \A i, j \in 1..(Len(words) - 1) : i # j => words[i] # words[j])
    => \A i \in 1..(Len(words) - 1) :
          [target |-> WordTarget(words[i]),
           sentiment |-> WordSentiment(words[Len(words)])] \in Range(parsed)

C2_Witness ==
    /\ pc = "extracted"
    /\ words = << W_Abc, W_def, W_minus_rep >>
    /\ Len(parsed) = 2
    /\ \A i \in DOMAIN parsed : parsed[i].sentiment = "negative"

IsSubstring(k, s) ==
    \E i \in 1..(Len(s) - Len(k) + 1) : SubSeq(s, i, i + Len(k) - 1) = k

TriggerFree(text) == \A k \in DOMAIN KEYWORDS : ~IsSubstring(KEYWORDS[k], Lower(text))

\* C3: for the empty text and for every text that contains none of the trigger
\* keywords as a case-insensitive substring, extract_reputation returns an
\* empty list
C3_NoKeywordNoResult ==
    (pc = "extracted" /\ (message.text = << >> \/ TriggerFree(message.text)))
    => parsed = << >>

C3_Witness ==
    /\ pc = "extracted"
    /\ words = << W_plus_req, W_Abc >>
    /\ TriggerFree(message.text)
    /\ parsed = << >>

ReplyUserKnown ==
    /\ message.reply_to_message # Null
    /\ message.reply_to_message[1].from_user # Null

ReplyUser == message.reply_to_message[1].from_user[1]

\* the user names of the model, normalized
NormalizedName(u) ==
    IF u = NamedUser THEN << "t", "a", "r", "g", "e", "t", "u", "s", "e", "r" >>
    ELSE IF u = BotUser THEN << "b", "o", "t", "u", "s", "e", "r" >>
    ELSE IF u = AuthorUser THEN << "a", "u", "t", "h", "o", "r" >>
    ELSE << "7", "7" >>

\* C5: when explicit extraction finds nothing, the message replies to a message
\* of a known author who is not a bot and the text matches the sign-only
\* pattern, build_entries_from_message returns exactly one entry: its target is
\* the author's normalized username, or the author's id as a string when there
\* is no username, and its sentiment is that of the sign run
C5_ReplyFallbackEntry ==
    (/\ pc = "built"
     /\ parsed = << >>
     /\ ReplyUserKnown
     /\ ~ReplyUser.is_bot
     /\ Search("sign_only", message.text, 1).end # 0)
    => /\ Len(entries) = 1
       /\ entries[1].target = NormalizedName(ReplyUser)
       /\ entries[1].sentiment =
             _resolve_sentiment(Search("sign_only", message.text, 1).sign)
       /\ (Len(words) = 1 /\ words[1] \in SignWords)
             => entries[1].sentiment = WordSentiment(words[1])

C5_Witness ==
    /\ pc = "built"
    /\ words = << W_mixed_repu >>
    /\ parsed = << >>
    /\ ReplyUserKnown
    /\ ReplyUser = NamedUser
    /\ Len(entries) = 1
    /\ entries[1].sentiment = "negative"

\* C6: a sign-only message, with no explicit target found, that replies to a
\* message of a bot produces no entries
C6_ReplyToBotNoEntries ==
    (pc = "built" /\ parsed = << >> /\ ReplyUserKnown /\ ReplyUser.is_bot)
    => entries = << >>

C6_Witness ==
    /\ pc = "built"
    /\ words = << W_plus_rep >>
    /\ ReplyUserKnown
    /\ ReplyUser.is_bot
    /\ entries = << >>

\* C10: in every list extract_reputation returns, each target is lower-case
\* with no leading "@", and no two items have the same target
C10_TargetsNormalizedAndUnique ==
    pc = "extracted"
    => /\ \A i \in DOMAIN parsed :
             /\ ~HasUpper(parsed[i].target)
             /\ parsed[i].target # << >>
             /\ parsed[i].target[1] # "@"
       /\ \A i, j \in DOMAIN parsed :
             parsed[i].target = parsed[j].target => i = j

C10_Witness ==
    /\ pc = "extracted"
    /\ words = << W_minus_rep, W_Abc, W_plus_rep, W_abc >>
    /\ Len(parsed) = 1

RECURSIVE Balance(_)
\* the number of "+" of a sign run less the number of its "-"
Balance(run) ==
    IF run = << >> THEN 0
    ELSE (IF run[1] = "+" THEN 1 ELSE -1) + Balance(Tail(run))

\* C4: for every non-empty run of "+" and "-", _resolve_sentiment returns
\* positive if and only if the run has at least as many "+" as "-", and
\* negative otherwise; a tie gives positive
C4_MajorityTiePositive ==
    resolved # None
    => /\ resolved \in {"positive", "negative"}
       /\ resolved = "positive" <=> Balance(sign_run) >= 0

C4_Witness ==
    /\ resolved = "positive"
    /\ Len(sign_run) = 4
    /\ Balance(sign_run) = 0

\* C7: after any sequence of calls of store_reputation_entries, no two stored
\* rows have the same (target, chat_id, message_id)
C7_StoredKeysUnique ==
    \A i, j \in DOMAIN rows : Key(rows[i]) = Key(rows[j]) => i = j

C7_Witness ==
    /\ Len(rows) = 2
    /\ Len(stored_batch) = 2
    /\ stored_count = 0
    /\ \A i \in DOMAIN stored_batch : StoredRow(stored_batch[i]) \notin Range(rows)

KeysOf(table) == { Key(table[i]) : i \in DOMAIN table }

\* C8: store_reputation_entries returns the number of keys of its entries
\* that were not stored before the call; a second call with the same entries
\* returns 0 and leaves the table as it was
C8_StoreIdempotent ==
    /\ stored_count =
          Cardinality({ Key(StoredRow(stored_batch[i])) : i \in DOMAIN stored_batch }
                        \ KeysOf(rows_before))
    /\ repeated => (stored_count = 0 /\ rows = rows_before)

C8_Witness ==
    /\ repeated
    /\ Len(stored_batch) = 2
    /\ stored_count = 0
    /\ Len(rows) = 2

AllDone == \A t \in DOMAIN tasks : tasks[t].pc \in {"done", "raised"}

Ingested ==
    \E t \in DOMAIN tasks : tasks[t].kind = "fetch" \/ ~paused

\* the table after the one ingestion of the message by capture_reputation,
\* and after its one ingestion by the fetcher
CapturedOnce == StoreLoop(<< >>, build_entries_from_message(chat_message), 0).rows
FetchedOnce ==
    StoreLoop(<< >>, _build_entries(chat_message, chat_message.chat.id), 0).rows

IngestedKeysAsOnce ==
    (AllDone /\ Ingested) => KeysOf(rows) = KeysOf(CapturedOnce)

\* auxiliary: the same, for messages with no audio, voice or video note
IngestedAsOnceWithoutVoice ==
    (AllDone /\ Ingested /\ chat_message.voice = Null)
    => Range(rows) = Range(CapturedOnce)

\* the calls of register made by the three patterns, in the order of the calls
PatternLog(text) ==
    LET ms == FindIter(RE_PATTERNS[1], text, 1) \o FindIter(RE_PATTERNS[2], text, 1)
                \o FindIter(RE_PATTERNS[3], text, 1)
    IN [i \in DOMAIN ms |->
            [target |-> Lower(IF ms[i].target[1] = "@"
                              THEN Tail(ms[i].target) ELSE ms[i].target),
             sentiment |-> IF Balance(ms[i].sign) >= 0 THEN "positive" ELSE "negative"]]

RECURSIVE TokenLog(_, _, _)
\* the calls of register made by the token pass, in the order of the calls;
\* cur is the sentiment of the last sign token and queue the waiting mentions
TokenLog(toks, cur, queue) ==
    IF toks = << >> THEN << >>
    ELSE IF toks[1].sign # Null
    THEN LET sn == IF Balance(toks[1].sign) >= 0 THEN "positive" ELSE "negative"
         IN [i \in DOMAIN queue |-> [target |-> queue[i], sentiment |-> sn]]
                \o TokenLog(Tail(toks), sn, << >>)
    ELSE LET mn == Lower(Tail(toks[1].mention))
         IN IF cur # None
            THEN << [target |-> mn, sentiment |-> cur] >> \o TokenLog(Tail(toks), cur, queue)
            ELSE TokenLog(Tail(toks), cur,
                          IF mn \in Range(queue) THEN queue ELSE Append(queue, mn))

RegisterLog(text) == PatternLog(text) \o TokenLog(FindIter("token", text, 1), None, << >>)

\* the sentiment of the last call for the target
LastAssigned(log, target) ==
    log[CHOOSE j \in DOMAIN log :
            /\ log[j].target = target
            /\ \A k \in DOMAIN log : (k > j) => log[k].target # target].sentiment

\* C11: when extract_reputation has scanned a text, its result has the targets
\* assigned during the call, each with the sentiment of the last assignment
C11_LastAssignmentWins ==
    (pc = "extracted" /\ message.text # << >> /\ ~TriggerFree(message.text))
    => /\ { parsed[i].target : i \in DOMAIN parsed }
            = { RegisterLog(message.text)[j].target :
                    j \in DOMAIN RegisterLog(message.text) }
       /\ \A i \in DOMAIN parsed :
             parsed[i].sentiment =
                LastAssigned(RegisterLog(message.text), parsed[i].target)

\* "+rep @abc -rep": negative by the target-before-sign pattern, then positive
\* by the token pass
C11_Witness ==
    /\ pc = "extracted"
    /\ words = << W_plus_rep, W_abc, W_minus_rep >>
    /\ sep = << " " >>
    /\ Len(RegisterLog(message.text)) = 3
    /\ RegisterLog(message.text)[2].sentiment = "negative"
    /\ parsed = << [target |-> << "a", "b", "c" >>, sentiment |-> "positive"] >>

\* C12: for a valid target, normalize_target of its normalized form is the
\* normalized form
C12_NormalizeIdempotent ==
    Len(normalized) = 2 => normalized[2] = normalized[1]

C12_Witness ==
    /\ Len(normalized) = 2
    /\ raw_target = << "@", "A", "b", "u0420" >>
    /\ normalized[2] = << "a", "b", "u0440" >>

(***************************************************************************)
(* fetch_summary                                                           *)
(***************************************************************************)
\* the rows of reputation_entries a call counts, stated on the tables
RawCount(target, chat, sentiment) ==
    Cardinality({ i \in DOMAIN rows :
                    /\ rows[i].target = Lower(target)
                    /\ rows[i].sentiment = sentiment
                    /\ chat # Null => rows[i].chat_id = chat[1] })

\* the signed adjustments of the ledger a call adds, stated on the ledger
AdjustmentSum(target, chat, delta) ==
    LET picked == { i \in DOMAIN adjustments :
                      /\ adjustments[i].target = Lower(target)
                      /\ chat # Null => adjustments[i].chat_id = chat }
        by(v) == Cardinality({ i \in picked : adjustments[i][delta] = v })
    IN  by(1) - 2 * by(-2)

Clamped(n) == IF n < 0 THEN 0 ELSE n

\* the counts computed by lines 282-319 are the raw counts plus the signed
\* adjustments, clamped at zero (the clamp happens before the constructor)
ComputedCountsClamped ==
    fetched # Null =>
        LET call == fetched[1]
        IN  /\ call.counts.positive >= 0
            /\ call.counts.negative >= 0
            /\ call.counts.positive =
                  Clamped(RawCount(call.target, call.chat_id, "positive")
                          + AdjustmentSum(call.target, call.chat_id, "positive_delta"))
            /\ call.counts.negative =
                  Clamped(RawCount(call.target, call.chat_id, "negative")
                          + AdjustmentSum(call.target, call.chat_id, "negative_delta"))

ComputedCountsClampedWitness ==
    /\ fetched # Null
    /\ fetched[1].counts.positive = 0
    /\ RawCount(fetched[1].target, fetched[1].chat_id, "positive") = 1
    /\ AdjustmentSum(fetched[1].target, fetched[1].chat_id, "positive_delta") = -2

\* every call of fetch_summary ends in the constructor of ReputationSummary,
\* which refuses the keyword details_total
FetchSummaryRaises ==
    fetched # Null => fetched[1].result.raised = "TypeError"

\* C13: the positive and the negative count fetch_summary returns are the raw
\* count plus the summed signed adjustments, clamped at zero, hence >= 0
C13_ReturnedCountsNonNegative ==
    fetched # Null =>
        LET call == fetched[1]
        IN  /\ call.result.raised = None
            /\ call.result.value[1].positive =
                  Clamped(RawCount(call.target, call.chat_id, "positive")
                          + AdjustmentSum(call.target, call.chat_id, "positive_delta"))
            /\ call.result.value[1].negative =
                  Clamped(RawCount(call.target, call.chat_id, "negative")
                          + AdjustmentSum(call.target, call.chat_id, "negative_delta"))
            /\ call.result.value[1].positive >= 0
            /\ call.result.value[1].negative >= 0

\* C14: an entry stored by store_reputation_entries is counted by
\* fetch_summary for every letter-casing of the target, and the summary
\* returned has the caller's string as its target
C14_CaseInsensitiveSummary ==
    fetched # Null /\ adjustments = << >> =>
        LET call == fetched[1]
        IN  /\ call.result.raised = None
            /\ call.result.value[1].target = call.target
            /\ call.result.value[1].positive =
                  Cardinality({ i \in DOMAIN rows :
                                  /\ Lower(rows[i].target) = Lower(call.target)
                                  /\ rows[i].sentiment = "positive"
                                  /\ call.chat_id # Null =>
                                        rows[i].chat_id = call.chat_id[1] })

\* the counts computed before the constructor do not depend on the casing of
\* the target argument
ComputedCountsCaseInsensitive ==
    fetched # Null =>
        \A other \in FetchTargets :
            Lower(other) = Lower(fetched[1].target) =>
                fetch_summary(rows, adjustments, groups, other,
                              fetched[1].chat_id).counts = fetched[1].counts

ComputedCountsCaseInsensitiveWitness ==
    /\ fetched # Null
    /\ fetched[1].target = << "A", "B", "C" >>
    /\ fetched[1].counts.positive = 1
    /\ adjustments = << >>

\* C15: one positive legacy row '@Abc', inserted directly, is counted by
\* fetch_summary('abc'): positive = 1 and negative = 0
C15_LegacyTargetCounted ==
    /\ fetched # Null
    /\ rows = << LegacyRow >>
    /\ adjustments = << >>
    /\ fetched[1].target = << "a", "b", "c" >>
    /\ fetched[1].chat_id = Null
    => /\ fetched[1].result.raised = None
       /\ fetched[1].result.value[1].positive = 1
       /\ fetched[1].result.value[1].negative = 0

\* WHERE target = ? compares the stored text with the lowered argument: the
\* legacy row is not among the rows counted
LegacyRowNotCounted ==
    /\ fetched # Null
    /\ rows = << LegacyRow >>
    /\ adjustments = << >>
    /\ fetched[1].target = << "a", "b", "c" >>
    => fetched[1].counts.positive = 0

LegacyRowNotCountedWitness ==
    /\ fetched # Null
    /\ rows = << LegacyRow >>
    /\ adjustments = << >>
    /\ fetched[1].target = << "a", "b", "c" >>
    /\ fetched[1].chat_id = Null

(***************************************************************************)
(* The table reputation_entries under the operations of Database           *)
(***************************************************************************)
\* C16: no operation of Database deletes a stored entry or changes one of
\* its fields; a store with the key of a stored entry and another sentiment
\* leaves the stored row as it was
C16_EntriesAppendOnly ==
    [][\A i \in DOMAIN rows : i \in DOMAIN rows' /\ rows'[i] = rows[i]]_vars

C16_Witness ==
    /\ \E i \in DOMAIN stored_batch, j \in DOMAIN rows_before :
          /\ Key(StoredRow(stored_batch[i])) = Key(rows_before[j])
          /\ stored_batch[i].sentiment # rows_before[j].sentiment
          /\ rows[j] = rows_before[j]
    /\ adjustments # << >>
    /\ \E c \in DOMAIN groups : groups[c].is_active = 0
    /\ \E u \in DOMAIN users : users[u].blocked = 1 /\ users[u].request_count > 0
    /\ paused

(***************************************************************************)
(* build_entries_from_message: totality, the entries, the attachment flags *)
(***************************************************************************)
EntryFields ==
    { "target", "chat_id", "message_id", "sentiment", "has_photo", "has_media",
      "content", "author_id", "author_username", "message_date" }

\* the shape of a returned list of entries, for the message it was built of
Returned(m, result) ==
    /\ DOMAIN result = 1..Len(result)
    /\ \A i \in DOMAIN result : DOMAIN result[i] = EntryFields
    /\ (m.text = Null /\ m.caption = Null) => result = << >>
    /\ m.from_user = Null
         => \A i \in DOMAIN result :
               /\ result[i].author_id = Null
               /\ result[i].author_username = Null

\* C17: extract_reputation and build_entries_from_message return a result
\* for every input, whatever the text, the reply and the author: a message
\* with neither text nor caption and a text without keyword give the empty
\* list, and without an author the author fields of the entries are null
C17_EngineTotal ==
    /\ pc = "extracted"
        => /\ parsed = extract_reputation(MessageText(message))
           /\ DOMAIN parsed = 1..Len(parsed)
           /\ \A i \in DOMAIN parsed :
                 /\ DOMAIN parsed[i] = {"target", "sentiment"}
                 /\ parsed[i].sentiment \in {"positive", "negative"}
           /\ ~HasKeyword(Lower(MessageText(message))) => parsed = << >>
           /\ \A reply \in Replies, author \in Authors, att \in Attachments :
                 Returned(WithContext(message, reply, author, att),
                          EntriesFromParsed(
                              WithContext(message, reply, author, att), parsed))
    /\ pc = "built"
        => /\ entries = EntriesFromParsed(message, parsed)
           /\ Returned(message, entries)

C17_Witness ==
    /\ pc = "built"
    /\ message.from_user = Null
    /\ message.reply_to_message = Null
    /\ words = << W_plus_rep, W_ab, W_abc >>
    /\ Len(entries) = 1
    /\ entries[1].author_id = Null

\* the mentions the entries are built for: those parsed, or the one of the
\* reply fallback
Mentions ==
    IF parsed # << >> THEN parsed ELSE ReplyFallback(message, MessageText(message))

\* C18: build_entries_from_message returns one entry per parsed mention, in
\* the same order; the entries of one message share chat_id, message_id,
\* has_photo, has_media, content, author_id, author_username and
\* message_date; their targets are lower-case and pairwise distinct
C18_OneEntryPerMention ==
    pc = "built"
    => /\ Len(entries) = Len(Mentions)
       /\ \A i \in DOMAIN entries :
             /\ entries[i].target = Mentions[i].target
             /\ entries[i].sentiment = Mentions[i].sentiment
             /\ entries[i].target = Lower(entries[i].target)
       /\ \A i, j \in DOMAIN entries :
             /\ \A f \in EntryFields \ {"target", "sentiment"} :
                   entries[i][f] = entries[j][f]
             /\ entries[i].target = entries[j].target => i = j
       /\ parsed # << >> => Len(entries) = Len(parsed)

C18_Witness ==
    /\ pc = "built"
    /\ words = << W_Abc, W_def, W_minus_rep >>
    /\ Len(entries) = 2
    /\ entries[1].target = << "d", "e", "f" >>
    /\ entries[2].target = << "a", "b", "c" >>
    /\ message.photo # Null

\* C19: has_photo of a built entry is true iff the message has a photo, and
\* has_media is true whenever it has a video, a document, an animation, an
\* audio, a voice or a video note
C19_AttachmentFlags ==
    pc = "built"
    => \A i \in DOMAIN entries :
          /\ entries[i].has_photo <=> message.photo # Null
          /\ (\/ message.video # Null \/ message.document # Null
              \/ message.animation # Null \/ message.audio # Null
              \/ message.voice # Null \/ message.video_note # Null)
                => entries[i].has_media

\* the flags of build_entries_from_message for the fields it reads
FlagsWithoutVoice ==
    (pc = "built" /\ message.audio = Null /\ message.voice = Null
        /\ message.video_note = Null)
    => \A i \in DOMAIN entries :
          /\ entries[i].has_photo <=> message.photo # Null
          /\ entries[i].has_media <=>
                (\/ message.video # Null \/ message.document # Null
                 \/ message.animation # Null)

\* the flags of the fetcher, for the same message
FetcherFlags ==
    pc = "built"
    => /\ _detect_media(message).has_photo <=> message.photo # Null
       /\ _detect_media(message).has_media <=>
             (\/ message.video # Null \/ message.document # Null
              \/ message.animation # Null \/ message.audio # Null
              \/ message.voice # Null \/ message.video_note # Null)

(***************************************************************************)
(* parse_rep_arguments                                                     *)
(***************************************************************************)
QuoteOpens == << "\"", "S", "o", "m", "e" >>
QuoteCloses == << "C", "h", "a", "t", "\"" >>

RECURSIVE WellQuoted(_)
\* every quote that opens is closed by the next word
WellQuoted(ws) ==
    IF ws = << >> THEN TRUE
    ELSE IF ws[1] = QuoteOpens
    THEN Len(ws) >= 2 /\ ws[2] = QuoteCloses /\ WellQuoted(Tail(Tail(ws)))
    ELSE ws[1] # QuoteCloses /\ WellQuoted(Tail(ws))

RECURSIVE TokensOf(_)
\* the tokens of the words of a well-quoted text: a quoted title is one
\* token, punctuation is not part of a token
TokensOf(ws) ==
    IF ws = << >> THEN << >>
    ELSE IF ws[1] = QuoteOpens
    THEN << << "S", "o", "m", "e", " ", "C", "h", "a", "t" >> >>
            \o TokensOf(Tail(Tail(ws)))
    ELSE IF ws[1] \in { << "," >>, << "\"", "\"" >> } THEN TokensOf(Tail(ws))
    ELSE IF ws[1] = << "x", "," >> THEN << << "x" >> >> \o TokensOf(Tail(ws))
    ELSE << ws[1] >> \o TokensOf(Tail(ws))

\* /r and /rep, with or without @botname
CommandTokens ==
    { << "/", "r" >>, << "/", "r", "e", "p" >>,
      << "/", "R", "@", "M", "y", "_", "B", "o", "t", "1" >> }

Remaining(ws) ==
    LET all == TokensOf(ws)
    IN  IF all # << >> /\ all[1] \in CommandTokens THEN Tail(all) ELSE all

\* (target, chat_title) as the claim states them
Stated(ws) ==
    LET remaining == Remaining(ws)
    IN  [raised |-> None,
         target |-> IF remaining = << >> THEN Null ELSE Some(remaining[1]),
         chat_title |-> IF Len(remaining) < 2 THEN Null ELSE Some(remaining[2])]

\* C20: parse_rep_arguments drops a leading command token and returns the
\* first remaining token, with its @, as the target and the second
\* remaining token, a quoted title being one token, or None as the chat
\* title; with no remaining token it returns (None, None)
C20_ArgumentsParsed ==
    arguments # Null
    => /\ arguments[1].raised = None
       /\ WellQuoted(arg_words) => arguments[1] = Stated(arg_words)

\* for the texts in which every quote is closed the call returns what is
\* stated
WellQuotedArgumentsParsed ==
    (arguments # Null /\ WellQuoted(arg_words)) => arguments[1] = Stated(arg_words)

WellQuotedArgumentsParsedWitness ==
    /\ arguments # Null
    /\ arg_words = << << "/", "R", "@", "M", "y", "_", "B", "o", "t", "1" >>,
                      << "@", "T", "g", "t" >> >>
    /\ arguments[1].target = Some(<< "@", "T", "g", "t" >>)
    /\ arguments[1].chat_title = Null

QuotedTitleWitness ==
    /\ arguments # Null
    /\ arg_words = << << "x", "," >>, QuoteOpens, QuoteCloses >>
    /\ arguments[1].target = Some(<< "x" >>)
    /\ arguments[1].chat_title = Some(<< "S", "o", "m", "e", " ", "C", "h", "a", "t" >>)

\* a text that ends inside quotes: shlex.split raises ValueError
UnclosedQuoteRaises ==
    (/\ arguments # Null
     /\ arg_words # << >>
     /\ arg_words[Len(arg_words)] = QuoteOpens
     /\ WellQuoted(SubSeq(arg_words, 1, Len(arg_words) - 1)))
    => arguments[1].raised = "ValueError"

UnclosedQuoteRaisesWitness ==
    /\ arguments # Null
    /\ arg_words = << << "/", "r" >>, << "@", "T", "g", "t" >>, QuoteOpens >>
    /\ arguments[1].raised = "ValueError"

(***************************************************************************)
(* extract_reputation: the fallback, the pending mentions, the order       *)
(***************************************************************************)
TargetsOf(list) == [i \in DOMAIN list |-> list[i].target]

\* C22: when extract_reputation returns at least one mention for the text of
\* the message, the targets of the built entries are the extracted targets
\* and the replied-to author is not added, whatever the reply context
C22_FallbackOnlyWhenEmpty ==
    (pc = "built" /\ parsed # << >>)
    => /\ TargetsOf(entries) = TargetsOf(parsed)
       /\ ReplyUserKnown
            => \A i \in DOMAIN entries : entries[i].target # NormalizedName(ReplyUser)

C22_Witness ==
    /\ pc = "built"
    /\ words = << W_plus_rep, W_Abc >>
    /\ ReplyUserKnown
    /\ ~ReplyUser.is_bot
    /\ TargetsOf(entries) = << << "a", "b", "c" >> >>

\* the tokens of the text of the message
TextTokens == FindIter("token", message.text, 1)

SignTokens == { i \in DOMAIN TextTokens : TextTokens[i].sign # Null }

MentionTokens == { i \in DOMAIN TextTokens : TextTokens[i].sign = Null }

\* C23: for a text with a trigger keyword and @mentions and no sign token,
\* extract_reputation returns no entry for the mentions: the list is empty
C23_PendingMentionsDropped ==
    (/\ pc = "extracted"
     /\ ~TriggerFree(message.text)
     /\ MentionTokens # {}
     /\ SignTokens = {})
    => parsed = << >>

C23_Witness ==
    /\ pc = "extracted"
    /\ words = << W_Abc, W_def, W_rep >>
    /\ sep = << " " >>
    /\ Cardinality(MentionTokens) = 2
    /\ pending_mentions = << << "a", "b", "c" >>, << "d", "e", "f" >> >>
    /\ parsed = << >>

RECURSIVE FirstSeen(_, _)
\* the targets of a log of registrations, each at its first registration
FirstSeen(log, seen) ==
    IF log = << >> THEN seen
    ELSE FirstSeen(Tail(log),
                   IF \E i \in DOMAIN seen : seen[i] = log[1].target
                   THEN seen ELSE Append(seen, log[1].target))

\* C24: the list extract_reputation returns is in the order in which the
\* targets were first registered; a later registration of a target changes
\* its sentiment at most, never its position
C24_OrderOfFirstRegistration ==
    (pc = "extracted" /\ message.text # << >> /\ ~TriggerFree(message.text))
    => TargetsOf(parsed) = FirstSeen(RegisterLog(message.text), << >>)

\* "+rep @Abc -rep @def": abc is registered positive, negative, positive
\* and stays first
C24_Witness ==
    /\ pc = "extracted"
    /\ words = << W_plus_rep, W_Abc, W_minus_rep, W_def >>
    /\ sep = << " " >>
    /\ \E i, j \in DOMAIN RegisterLog(message.text) :
          /\ i < j
          /\ RegisterLog(message.text)[i].target = << "d", "e", "f" >>
          /\ RegisterLog(message.text)[j].target = << "a", "b", "c" >>
          /\ RegisterLog(message.text)[j].sentiment = "negative"
    /\ parsed = << [target |-> << "a", "b", "c" >>, sentiment |-> "positive"],
                   [target |-> << "d", "e", "f" >>, sentiment |-> "negative"] >>

\* the tokens the loop has gone through
Consumed == SubSeq(TextTokens, 1, Len(TextTokens) - Len(tokens))

\* C25: in the token pass the queue of pending mentions can be non-empty
\* only before the first sign token: once a sign token has been seen the
\* current sign stays set and the queue stays empty, and the queue never
\* holds a target twice
C25_PendingOnlyBeforeFirstSign ==
    pc = "tokens"
    => /\ current_sign # None <=> \E i \in DOMAIN Consumed : Consumed[i].sign # Null
       /\ current_sign # None => pending_mentions = << >>
       /\ \A i, j \in DOMAIN pending_mentions :
             pending_mentions[i] = pending_mentions[j] => i = j

C25_Witness ==
    /\ pc = "tokens"
    /\ words = << W_Abc, W_minus_rep, W_def >>
    /\ sep = << " " >>
    /\ Len(tokens) = 0
    /\ current_sign = "negative"
    /\ pending_mentions = << >>
    /\ Len(sentiments) = 2

\* C26: if the text has a sign token, every mention token of the text is a
\* target of the result of extract_reputation; so the reply fallback fires
\* only for texts that do not have a mention token and a sign token together
C26_MentionsWithSignRegistered ==
    /\ (pc = "extracted" /\ message.text # << >> /\ SignTokens # {})
        => \A i \in MentionTokens :
              \E j \in DOMAIN parsed :
                 parsed[j].target = Lower(Tail(TextTokens[i].mention))
    /\ (pc = "built" /\ parsed = << >> /\ entries # << >>)
        => (MentionTokens = {} \/ SignTokens = {})

C26_Witness ==
    /\ pc = "extracted"
    /\ words = << W_def, W_plus_rep, W_Abc >>
    /\ sep = << " " >>
    /\ Cardinality(MentionTokens) = 2
    /\ Cardinality(SignTokens) = 1
    /\ Len(parsed) = 2


\* the keys of the entries of the batch of task t
BatchKeys(t) ==
    { Key(StoredRow(tasks[t].entries[i])) : i \in DOMAIN tasks[t].entries }

\* no task other than t has executed an INSERT of store_reputation_entries
OnlyStoreOf(t) == \A u \in DOMAIN tasks \ {t} : tasks[u].next = 1

\* C27: when store_reputation_entries has raised while inserting its batch and
\* has rolled back, none of the entries of the batch is stored, whatever other
\* operations of the connection were interleaved with it
C27_BatchAllOrNothing ==
    \A t \in DOMAIN tasks :
        (tasks[t].pc = "failed" /\ OnlyStoreOf(t))
        => BatchKeys(t) \cap KeysOf(rows) = {}

\* auxiliary: the same, when the other tasks have not run at all
FailedAloneStoresNothing ==
    \A t \in DOMAIN tasks :
        (tasks[t].pc = "failed" /\ \A u \in DOMAIN tasks \ {t} : tasks[u].pc = "start")
        => rows = << >>

\* auxiliary: outside a transaction the tables are those of the last commit
NothingPendingOutsideTransaction ==
    ~in_transaction => (rows = committed.rows /\ groups = committed.groups)


\* last_processed_message_id of the group of the message, Null without a row
LastProcessed(grouptable) ==
    IF chat_message.chat.id \in DOMAIN grouptable
    THEN grouptable[chat_message.chat.id].last_processed_message_id
    ELSE Null

\* the step is one of task t
StepOf(t) == tasks'[t] # tasks[t]

\* what a step of capture_reputation, task t, may do to last_processed_message_id
\* and to the stored entries
CaptureEffect(t) ==
    /\ LastProcessed(groups') # LastProcessed(groups)
       => /\ tasks[t].count # 0
          /\ LastProcessed(groups') = Some(chat_message.message_id)
          /\ BatchKeys(t) \cap KeysOf(rows') # {}
    /\ (/\ tasks[t].pc # "rollback"
        /\ \/ paused
           \/ tasks'[t].entries = << >>
           \/ (tasks'[t].count = 0 /\ BatchKeys(t) \subseteq KeysOf(rows)))
       => /\ rows' = rows
          /\ LastProcessed(groups') = LastProcessed(groups)

\* C29: capture_reputation changes last_processed_message_id only when the
\* message gave a newly stored entry, and then to the id of the message; with
\* no entries, with all entries stored before, or while paused it leaves
\* last_processed_message_id and the stored entries as they were
C29_LastProcessedOnlyOnNewEntries ==
    [][\A t \in DOMAIN tasks :
          (tasks[t].kind = "capture" /\ StepOf(t)) => CaptureEffect(t)]_vars

\* auxiliary: the same, while no store has rolled back
CaptureEffectWithoutRollback ==
    [][\A t \in DOMAIN tasks :
          (/\ tasks[t].kind = "capture"
           /\ StepOf(t)
           /\ \A u \in DOMAIN tasks : tasks'[u].pc # "failed")
          => CaptureEffect(t)]_vars


\* the step is a call of register_group: by a caller of the database, or by
\* on_chat_member when the bot became a member or an administrator
RegisterGroupStep ==
    \/ RegisterGroup
    \/ (OnChatMember /\ member_status' \in { Some("member"), Some("administrator") })

\* the step is a call of activate_group or of deactivate_group, the latter
\* also by on_chat_member when the bot left, was kicked or was restricted
SetIsActiveStep ==
    \/ ActivateGroup
    \/ DeactivateGroup
    \/ (OnChatMember
          /\ member_status' \in { Some("left"), Some("kicked"), Some("restricted") })

\* C30: register_group leaves is_active of an existing group as it was and
\* writes only title, username and type; is_active of an existing group changes
\* only in activate_group and deactivate_group, so a deactivated group stays
\* inactive through every later register_group
C30_RegisterKeepsIsActive ==
    [][/\ DOMAIN groups \subseteq DOMAIN groups'
       /\ \A c \in DOMAIN groups :
             /\ groups'[c].is_active # groups[c].is_active => SetIsActiveStep
             /\ RegisterGroupStep
                => /\ groups'[c].is_active = groups[c].is_active
                   /\ groups'[c].last_processed_message_id
                        = groups[c].last_processed_message_id]_vars

\* the bot was re-added to a deactivated group that had been renamed: the
\* title is the new one, the group is still inactive
C30_Witness ==
    /\ member_status = Some("member")
    /\ -100 \in DOMAIN groups
    /\ groups[-100].is_active = 0
    /\ groups[-100].title = RenamedChat.title
    /\ rows # << >>


\* the place of x in seq
Pos(seq, x) == CHOOSE i \in DOMAIN seq : seq[i] = x

\* the n calls of acquire from the k-th on
Window(k, n) == k..(k + n - 1)

\* the list of active accounts was the same list of n accounts, and did not
\* change, throughout the n calls of acquire from the k-th on
ListUnchanged(k, n) ==
    /\ n >= 1
    /\ Window(k, n) \subseteq DOMAIN acquired
    /\ \A j \in Window(k, n) :
          /\ acquired[j].credentials
          /\ acquired[j].stable
          /\ acquired[j].version = acquired[k].version
          /\ acquired[j].active = acquired[k].active
          /\ Len(acquired[j].active) = n

\* the n calls return the client of each account once, in the order of the
\* list taken as a cycle
RoundRobin(k, n) ==
    /\ \A j \in Window(k, n) : acquired[j].result = "client"
    /\ { acquired[j].session : j \in Window(k, n) } = Range(acquired[k].active)
    /\ \A j \in Window(k, n - 1) :
          Pos(acquired[k].active, acquired[j + 1].session)
            = (Pos(acquired[k].active, acquired[j].session) % n) + 1

\* C21: while the list of n >= 1 active accounts does not change, n calls of
\* acquire one after the other return the client of each account once, in
\* list order taken as a cycle; with no active account or no API credentials
\* acquire raises RuntimeError
C21_AcquireRoundRobin ==
    /\ \A k \in DOMAIN acquired, n \in 1..MaxAccounts :
          ListUnchanged(k, n) => RoundRobin(k, n)
    /\ \A k \in DOMAIN acquired :
          (~acquired[k].credentials \/ acquired[k].active = << >>)
          => acquired[k].result = "RuntimeError"

\* auxiliary: without API credentials acquire raises RuntimeError
NoCredentialsRuntimeError ==
    \A k \in DOMAIN acquired :
        ~acquired[k].credentials => acquired[k].result = "RuntimeError"

\* auxiliary: with the repository's Database and API credentials acquire
\* raises AttributeError
DatabaseAttributeError ==
    \A k \in DOMAIN acquired :
        (~accounts_api /\ acquired[k].credentials)
        => acquired[k].result = "AttributeError"

\* auxiliary: with a db that has the account methods, acquire raises
\* RuntimeError when there is no active account, and n calls that all returned
\* a client, with no reset of the index between them, are round-robin
RoundRobinWithAccountMethods ==
    accounts_api =>
        /\ \A k \in DOMAIN acquired :
              (acquired[k].active = << >> /\ acquired[k].stable)
              => acquired[k].result = "RuntimeError"
        /\ \A k \in DOMAIN acquired, n \in 1..MaxAccounts :
              (/\ ListUnchanged(k, n)
               /\ \A j \in Window(k, n) : acquired[j].result = "client"
               /\ \A j \in Window(k, n - 1) :
                     acquired[j + 1].index = acquired[j].index + 1)
              => RoundRobin(k, n)


\* the call is inside `async with self._lock`
InLock(t) == calls[t].pc \in { "configure", "close", "refresh", "start", "refreshed" }

\* the call of acquire is at the pick of a session name, line 48
AtPick(t) == calls[t].kind = "acquire" /\ calls[t].pc = "refreshed"

\* C28: at most one call of configure, refresh, acquire and close is inside the
\* lock at a time, and it holds the lock; when acquire picks a session name
\* every name of the rotation order has a client in the client map, started
\* once; no session ever has two clients started
C28_PoolCallsExclusive ==
    /\ \A t, u \in DOMAIN calls : (InLock(t) /\ InLock(u)) => t = u
    /\ \A t \in DOMAIN calls : InLock(t) => _lock = t
    /\ \A t \in DOMAIN calls :
          AtPick(t) => /\ Range(_order) \subseteq _clients
                       /\ \A s \in Range(_order) : started[s] = 1
    /\ \A s \in DOMAIN started : started[s] <= 1
    /\ \A k \in DOMAIN acquired : acquired[k].result # "KeyError"

\* acquire is at the pick with two names in the rotation order, each with its
\* one client, while the other call waits for the lock
C28_Witness ==
    \E t, u \in DOMAIN calls :
        /\ AtPick(t)
        /\ Len(_order) = MaxAccounts
        /\ _clients = Range(_order)
        /\ calls[u].pc = "lock"

\* auxiliary: the client map holds exactly the sessions that have a started
\* client
ClientsAreStarted ==
    \A s \in DOMAIN started : started[s] = IF s \in _clients THEN 1 ELSE 0

=============================================================================
